---- MODULE Spec2Model ----
(***************************************************************************)
(* State-machine model of the matrix_rain Arduino sketches.                *)
(*                                                                         *)
(* Every sketch is a single-threaded loop(): spawn decisions, state        *)
(* advance, full-frame render.  Each function of a sketch is an operator   *)
(* from a simulation state (a record of the sketch's global tables) to the *)
(* next one; the actions apply these operators.                            *)
(*                                                                         *)
(* Random numbers.  Every value the code takes from splitmix32 is an       *)
(* input of the operator that uses it, drawn by the calling action from a  *)
(* small set; the arithmetic the code applies to the drawn word (masking,  *)
(* modulo, shifts) is modelled as written.  The 32-bit generator words     *)
(* themselves (global_rng, Drop.rng) are part of the state only in the     *)
(* specifications that run the generator (SpecRng, SpecSeed).  The rng     *)
(* field of a FastDrop holds the word charForFast derives its glyph from.  *)
(***************************************************************************)
EXTENDS Integers, Sequences, FiniteSets, TLC

VARIABLES
  drops,              \* Drop drops[MAX_DROPS]
  fasts,              \* FastDrop fasts[MAX_FAST]
  column_occupied,    \* bool column_occupied[TERM_COLS]
  drop_char_idx,      \* uint8_t drop_char_idx[MAX_DROPS][MAX_TRAIL]
  drop_bright_packed, \* uint8_t drop_bright_packed[MAX_DROPS][BRIGHT_BYTES_PER_DROP + 1]
  spawn_roll,         \* the byte (global_rng & 0xFF) maybeSpawnDrop drew in the latest Loop
  global_rng,         \* uint32_t global_rng, where the generator itself is run
  cols,               \* Column cols[TERM_COLS] of the per-column sketch
  serial,             \* what the latest handler wrote to Serial
  pc                  \* the call of loop() that runs next

vars == <<drops, fasts, column_occupied, drop_char_idx, drop_bright_packed,
          spawn_roll, global_rng, cols, serial, pc>>

(***************************************************************************)
(* Sizes.  The sketches configure an 80x24 terminal, 25..35 drops, 12..16  *)
(* fast drops and trails of up to 12 cells; the model keeps the code and   *)
(* scales the tables down.                                                 *)
(***************************************************************************)
TERM_COLS == 2
TERM_ROWS == 2
MAX_DROPS == 2
MAX_FAST == 1
MAX_TRAIL == 4
\* largest value drawn for the speed bits (global_rng >> 8) of a spawn word
MaxSpeedDraw == 1

SPAWN_CHANCE == 45
SPAWN_FAST_CHANCE == 28

BRIGHT_BYTES_PER_DROP == (MAX_TRAIL * 2 + 7) \div 8

CHARSET ==
  << "a","b","c","d","e","f","g","h","i","j","k","l","m","n","o","p","q","r",
     "s","t","u","v","w","x","y","z","0","1","2","3","4","5","6","7","8","9",
     "@","#","$","%","&","*","(",")","<",">","/","\"" >>

DropIdx == 0 .. MAX_DROPS - 1
FastIdx == 0 .. MAX_FAST - 1
ColIdx  == 0 .. TERM_COLS - 1
RowIdx  == 0 .. TERM_ROWS - 1
SlotIdx == 0 .. MAX_TRAIL - 1
ByteIdx == 0 .. BRIGHT_BYTES_PER_DROP

(***************************************************************************)
(* The draws of the actions.                                               *)
(***************************************************************************)
\* global_rng & 0xFF in maybeSpawnDrop: the last byte that spawns, the first that does not
SpawnRolls == {SPAWN_CHANCE, SPAWN_CHANCE + 1}
\* global_rng & 0xFF in maybeSpawnFastDrop
FastRolls == {SPAWN_FAST_CHANCE, SPAWN_FAST_CHANCE + 1}
\* the word reduced modulo TERM_COLS to a start column (one value wraps)
ColDraws == 0 .. TERM_COLS
\* the word that gives a new Drop its trail (low bits) and speed (bits 8 and up)
SpawnDraws == {lo + 256 * hi : lo \in 0 .. MAX_TRAIL - 3, hi \in 0 .. MaxSpeedDraw}
\* the word a glyph index is taken from
HashDraws == {52}

(***************************************************************************)
(* Bit operations on unsigned bytes and 16-bit words.                      *)
(***************************************************************************)
RECURSIVE BitAnd(_, _)
BitAnd(a, b) ==
  IF a = 0 \/ b = 0 THEN 0
  ELSE (a % 2) * (b % 2) + 2 * BitAnd(a \div 2, b \div 2)

RECURSIVE BitOr(_, _)
BitOr(a, b) ==
  IF a = 0 THEN b
  ELSE IF b = 0 THEN a
  ELSE (IF a % 2 = 1 \/ b % 2 = 1 THEN 1 ELSE 0) + 2 * BitOr(a \div 2, b \div 2)

Pow2(n) == 2 ^ n
Shr(x, n) == x \div Pow2(n)
U8(x) == x % 256
U16(x) == x % 65536
Not8(x) == 255 - x

(***************************************************************************)
(* vectorized.ino (first sketch): PRNG helpers, packed brightness.         *)
(***************************************************************************)
\* mutant: the word is stored without the reduction to the character set
pickIndex_NoMod(h) == h
\* "(uint8_t)(h % (sizeof(CHARSET) - 1))"
pickIndex(h) == h % Len(CHARSET)

charset_at_idx(idx) == CHARSET[(idx % Len(CHARSET)) + 1]

get_bright_slot(bp, drop_idx, slot) ==
  LET bitpos  == slot * 2
      byteIdx == U8(Shr(bitpos, 3))
      bitOff  == U8(BitAnd(bitpos, 7))
      v       == Shr(bp[drop_idx][byteIdx], bitOff)
  IN  IF bitOff <= 6
        THEN BitAnd(v, 3)
        ELSE LET next == bp[drop_idx][byteIdx + 1]
             IN  BitAnd(BitOr(v, U16(next * Pow2(8 - bitOff))), 3)

\* mutant: the new value is or-ed in without clearing the two bits first
set_bright_slot_NoClear(bp, drop_idx, slot, val0) ==
  LET bitpos  == slot * 2
      byteIdx == bitpos \div 8
      bitOff  == bitpos % 8
  IN  [bp EXCEPT ![drop_idx][byteIdx] = BitOr(@, U8(BitAnd(val0, 3) * Pow2(bitOff)))]

set_bright_slot(bp, drop_idx, slot, val0) ==
  LET val     == BitAnd(val0, 3)
      bitpos  == slot * 2
      byteIdx == U8(Shr(bitpos, 3))
      bitOff  == U8(BitAnd(bitpos, 7))
  IN  IF bitOff <= 6
        THEN LET mask == U8(3 * Pow2(bitOff))
             IN  [bp EXCEPT ![drop_idx][byteIdx] =
                    BitOr(BitAnd(@, Not8(mask)), U8(val * Pow2(bitOff)))]
        ELSE LET low_mask  == 128
                 high_mask == 1
             IN  [bp EXCEPT
                    ![drop_idx][byteIdx] =
                       BitOr(BitAnd(@, Not8(low_mask)), U8(BitAnd(val, 1) * 128)),
                    ![drop_idx][byteIdx + 1] =
                       BitOr(BitAnd(@, Not8(high_mask)), BitAnd(Shr(val, 1), 1))]

\* set_bright_slot(drop_idx, k, vals[k]) for k = from .. to - 1, in that order
RECURSIVE SetBrightSlots(_, _, _, _, _)
SetBrightSlots(bp, drop_idx, from, to, vals) ==
  IF from >= to THEN bp
  ELSE SetBrightSlots(set_bright_slot(bp, drop_idx, from, vals[from]),
                      drop_idx, from + 1, to, vals)

(***************************************************************************)
(* vectorized.ino: utilities and setupState.                               *)
(***************************************************************************)
RECURSIVE FindDropFrom(_, _, _)
FindDropFrom(ds, col, i) ==
  IF i >= MAX_DROPS THEN -1
  ELSE IF ds[i].head # -1 /\ ds[i].col = col THEN i
  ELSE FindDropFrom(ds, col, i + 1)

findDropIndexInColumn(ds, col) == FindDropFrom(ds, col, 0)

charForFast(f) == charset_at_idx(pickIndex(f.rng))

\* the tables at power-up (zero-initialised globals) after setupState
setupState ==
  [ drops |-> [i \in DropIdx |->
                 [col |-> 0, head |-> -1, trail |-> 0, speed |-> 0, age |-> 0, boost |-> 0]],
    fasts |-> [i \in FastIdx |->
                 [active |-> FALSE, col |-> 0, row |-> 0, speed |-> 0, age |-> 0, rng |-> 0]],
    column_occupied |-> [c \in ColIdx |-> FALSE],
    drop_char_idx |-> [i \in DropIdx |-> [k \in SlotIdx |-> 0]],
    drop_bright_packed |-> [i \in DropIdx |-> [b \in ByteIdx |-> 0]] ]

(***************************************************************************)
(* vectorized.ino: maybeSpawnDrop, maybeSpawnFastDrop.                     *)
(***************************************************************************)
\* the first i in from .. n - 1 with P[i], or -1: "for (i...) if (...) { idx = i; break; }"
\* mutant: with no such i the scan answers slot 0
FirstFrom_OrZero(P, i, n) ==
  IF \E j \in i .. n - 1 : P[j]
  THEN CHOOSE j \in i .. n - 1 : P[j] /\ \A k \in i .. j - 1 : ~P[k]
  ELSE 0

RECURSIVE FirstFrom(_, _, _)
FirstFrom(P, i, n) ==
  IF i >= n THEN -1 ELSE IF P[i] THEN i ELSE FirstFrom(P, i + 1, n)

\* the first column c = (start_col + i) % TERM_COLS, i = 0, 1, ..., whose flag equals want
\* mutant: the start column is taken without looking at its flag
ScanColumns_NoCheck(occ, start_col, i, want) == start_col

RECURSIVE ScanColumns(_, _, _, _)
ScanColumns(occ, start_col, i, want) ==
  IF i >= TERM_COLS THEN -1
  ELSE LET c == (start_col + i) % TERM_COLS
       IN  IF occ[c] = want THEN c ELSE ScanColumns(occ, start_col, i + 1, want)

\* mutant: the modulus is MAX_TRAIL itself
SpawnTrail_Wide(g) == (g % MAX_TRAIL) + 3
SpawnTrail(g) == (g % (MAX_TRAIL - 2)) + 3
\* mutant: the "+ 1" of the speed is missing
SpawnSpeed_NoOffset(g) == Shr(g, 8) % 5
SpawnSpeed(g) == (Shr(g, 8) % 5) + 1
SpawnBright(k) == IF k = 0 THEN 3 ELSE IF k = 1 THEN 2 ELSE 1

\* roll = global_rng & 0xFF, r2 and g the next two words of global_rng, h a glyph word
maybeSpawnDrop(s, roll, r2, g, h) ==
  IF roll > SPAWN_CHANCE THEN s
  ELSE
    LET idx == FirstFrom([i \in DropIdx |-> s.drops[i].head = -1], 0, MAX_DROPS)
    IN  IF idx = -1 THEN s
        ELSE
          LET start_col == U8(r2 % TERM_COLS)
              free_col  == ScanColumns(s.column_occupied, start_col, 0, FALSE)
          IN  IF free_col = -1 THEN s
              ELSE
                LET trail == U8(SpawnTrail(g))
                    d == [col |-> free_col, head |-> 0, trail |-> trail,
                          speed |-> U8(SpawnSpeed(g)), age |-> 0, boost |-> 0]
                    vals == [k \in SlotIdx |-> IF k < trail THEN SpawnBright(k) ELSE 0]
                IN  [s EXCEPT
                       !.drops[idx] = d,
                       !.drop_char_idx[idx] =
                          [k \in SlotIdx |-> IF k < trail THEN pickIndex(h) ELSE 0],
                       !.drop_bright_packed =
                          SetBrightSlots(@, idx, 0, MAX_TRAIL, vals),
                       !.column_occupied[free_col] = TRUE]

\* mutant: the FastDrop is put in the start column, occupied or not
maybeSpawnFastDrop_AnyColumn(s, roll, r2, h) ==
  IF roll > SPAWN_FAST_CHANCE THEN s
  ELSE
    LET fidx == FirstFrom([i \in FastIdx |-> ~s.fasts[i].active], 0, MAX_FAST)
    IN  IF fidx = -1 THEN s
        ELSE [s EXCEPT !.fasts[fidx] =
                [active |-> TRUE, col |-> U8(r2 % TERM_COLS), row |-> 0,
                 speed |-> 1, age |-> 0, rng |-> h]]

maybeSpawnFastDrop(s, roll, r2, h) ==
  IF roll > SPAWN_FAST_CHANCE THEN s
  ELSE
    LET start_col     == U8(r2 % TERM_COLS)
        col_with_drop == ScanColumns(s.column_occupied, start_col, 0, TRUE)
    IN  IF col_with_drop = -1 THEN s
        ELSE
          LET fidx == FirstFrom([i \in FastIdx |-> ~s.fasts[i].active], 0, MAX_FAST)
          IN  IF fidx = -1 THEN s
              ELSE [s EXCEPT !.fasts[fidx] =
                      [active |-> TRUE, col |-> col_with_drop, row |-> 0,
                       speed |-> 1, age |-> 0, rng |-> h]]

(***************************************************************************)
(* vectorized.ino: stepDrops.                                              *)
(***************************************************************************)
\* mutant: the trail length is counted one cell too long
TrailOffScreen_WholeTrail(d) == d.head - d.trail >= TERM_ROWS
\* mutant: the trail length is counted one cell too long and the comparison is strict
TrailOffScreen_Late(d) == d.head - d.trail > TERM_ROWS
\* "if (d.head - (int16_t)(d.trail - 1) >= (int16_t)TERM_ROWS)"
TrailOffScreen(d) == d.head - (d.trail - 1) >= TERM_ROWS

\* mutant: the column flag is not cleared
DeactivateDrop_KeepFlag(s, i) ==
  [s EXCEPT
     !.drops[i].head = -1,
     !.drops[i].boost = 0,
     !.drop_bright_packed[i] = [b \in ByteIdx |-> 0]]

\* mutant: the drop restarts at the top row instead of going inactive
DeactivateDrop_Restart(s, i) ==
  [s EXCEPT
     !.drops[i].head = 0,
     !.drops[i].boost = 0,
     !.drop_bright_packed[i] = [b \in ByteIdx |-> 0]]

\* the body of "deactivate when off-screen": free the column, reset head and boost,
\* clear the packed brightness bytes
DeactivateDrop(s, i) ==
  [s EXCEPT
     !.column_occupied[s.drops[i].col] = FALSE,
     !.drops[i].head = -1,
     !.drops[i].boost = 0,
     !.drop_bright_packed[i] = [b \in ByteIdx |-> 0]]

\* tmp_bright after the shift-and-decay loop and the head reset
DecayBright(tmp, trail, boost) ==
  [k \in SlotIdx |->
     IF k >= trail THEN tmp[k]
     ELSE IF k = 0 THEN (IF boost # 0 THEN 3 ELSE 3)
     ELSE IF tmp[k - 1] > 1 THEN tmp[k - 1] - 1 ELSE 1]

\* mutant: the head advances only when age has passed speed
StepDrop_LateAdvance(s, i, h) ==
  LET d == s.drops[i] IN
  IF d.head = -1 THEN s
  ELSE
    LET age1 == U8(d.age + 1)
        adv  == age1 > d.speed
        d1   == IF adv
                  THEN [d EXCEPT !.age = 0, !.head = d.head + 1,
                                 !.boost = IF d.boost # 0 THEN d.boost - 1 ELSE 0]
                  ELSE [d EXCEPT !.age = age1]
        chars1 == IF adv
                    THEN [k \in SlotIdx |->
                            IF k = 0 THEN pickIndex(h)
                            ELSE IF k < d.trail THEN s.drop_char_idx[i][k - 1]
                            ELSE s.drop_char_idx[i][k]]
                    ELSE s.drop_char_idx[i]
        tmp  == [k \in SlotIdx |->
                   IF k < d.trail THEN get_bright_slot(s.drop_bright_packed, i, k) ELSE 0]
        bp1  == IF adv
                  THEN SetBrightSlots(s.drop_bright_packed, i, 0, d.trail,
                                      DecayBright(tmp, d.trail, d.boost))
                  ELSE s.drop_bright_packed
        s1   == [s EXCEPT
                   !.drops[i] = d1,
                   !.drop_char_idx[i] = chars1,
                   !.drop_bright_packed = bp1]
    IN  IF TrailOffScreen(d1) THEN DeactivateDrop(s1, i) ELSE s1

\* the body of the loop of stepDrops for drop i
StepDrop(s, i, h) ==
  LET d == s.drops[i] IN
  IF d.head = -1 THEN s
  ELSE
    LET age1 == U8(d.age + 1)
        adv  == age1 >= d.speed
        d1   == IF adv
                  THEN [d EXCEPT !.age = 0, !.head = d.head + 1,
                                 !.boost = IF d.boost # 0 THEN d.boost - 1 ELSE 0]
                  ELSE [d EXCEPT !.age = age1]
        chars1 == IF adv
                    THEN [k \in SlotIdx |->
                            IF k = 0 THEN pickIndex(h)
                            ELSE IF k < d.trail THEN s.drop_char_idx[i][k - 1]
                            ELSE s.drop_char_idx[i][k]]
                    ELSE s.drop_char_idx[i]
        tmp  == [k \in SlotIdx |->
                   IF k < d.trail THEN get_bright_slot(s.drop_bright_packed, i, k) ELSE 0]
        bp1  == IF adv
                  THEN SetBrightSlots(s.drop_bright_packed, i, 0, d.trail,
                                      DecayBright(tmp, d.trail, d.boost))
                  ELSE s.drop_bright_packed
        s1   == [s EXCEPT
                   !.drops[i] = d1,
                   !.drop_char_idx[i] = chars1,
                   !.drop_bright_packed = bp1]
    IN  IF TrailOffScreen(d1) THEN DeactivateDrop(s1, i) ELSE s1

RECURSIVE StepDropsFrom(_, _, _)
StepDropsFrom(s, i, h) ==
  IF i >= MAX_DROPS THEN s ELSE StepDropsFrom(StepDrop(s, i, h), i + 1, h)

stepDrops(s, h) == StepDropsFrom(s, 0, h)

(***************************************************************************)
(* vectorized.ino: stepFastDrops.                                          *)
(***************************************************************************)
\* "if (f.row >= bottom)" with bottom = d.head - (d.trail - 1): the fast drop stops
FastStops(d, row) == row >= d.head - (d.trail - 1)

\* the body of the loop of stepFastDrops for fast drop i
StepFast(s, i, h) ==
  LET f == s.fasts[i] IN
  IF ~f.active THEN s
  ELSE
    LET age1 == U8(f.age + 1) IN
    IF age1 < f.speed THEN [s EXCEPT !.fasts[i].age = age1]
    ELSE
      LET row1 == f.row + 1
          f1   == [f EXCEPT !.age = 0, !.row = row1]
      IN  IF row1 >= TERM_ROWS THEN [s EXCEPT !.fasts[i] = [f1 EXCEPT !.active = FALSE]]
          ELSE
            LET di == findDropIndexInColumn(s.drops, f.col) IN
            IF di = -1 THEN [s EXCEPT !.fasts[i] = f1]
            ELSE
              LET d      == s.drops[di]
                  bottom == d.head - (d.trail - 1)
                  dist   == d.head - row1
                  pass   == row1 >= bottom /\ row1 <= d.head
                              /\ dist >= 0 /\ dist < d.trail
                  cur    == get_bright_slot(s.drop_bright_packed, di, dist)
                  nb     == IF cur < 3 THEN cur + 1 ELSE 3
                  chars1 == IF pass
                              THEN [s.drop_char_idx EXCEPT ![di][dist] = pickIndex(h)]
                              ELSE s.drop_char_idx
                  bp1    == IF pass
                              THEN set_bright_slot(s.drop_bright_packed, di, dist, nb)
                              ELSE s.drop_bright_packed
              IN  IF FastStops(d, row1)
                    THEN [s EXCEPT
                            !.drops[di].boost = IF d.boost < 6 THEN 6 ELSE d.boost,
                            !.drop_char_idx = chars1,
                            !.drop_bright_packed = set_bright_slot(bp1, di, 0, 3),
                            !.fasts[i] = [f1 EXCEPT !.active = FALSE]]
                    ELSE [s EXCEPT
                            !.drop_char_idx = chars1,
                            !.drop_bright_packed = bp1,
                            !.fasts[i] = f1]

RECURSIVE StepFastsFrom(_, _, _)
StepFastsFrom(s, i, h) ==
  IF i >= MAX_FAST THEN s ELSE StepFastsFrom(StepFast(s, i, h), i + 1, h)

stepFastDrops(s, h) == StepFastsFrom(s, 0, h)

(***************************************************************************)
(* vectorized.ino: terminal helpers and renderFrame.  A write to Serial is *)
(* one element of the output sequence; ESC stands for the byte 0x1b.       *)
(***************************************************************************)
term_hide_cursor == << "ESC[?25l" >>
term_clear == << "ESC[2J", "ESC[H" >>
term_reset_color == << "ESC[0m" >>

term_set_color(bright) ==
  CASE bright = 4 -> "ESC[97;1m"
    [] bright = 3 -> "ESC[97;1m"
    [] bright = 2 -> "ESC[32;1m"
    [] bright = 1 -> "ESC[32m"
    [] OTHER      -> "ESC[90m"

\* what setup() writes before the first loop()
setup_output == term_hide_cursor \o term_clear

\* mutant: the colour is set for every cell
ColourChange_Always(last_brightness, current_brightness) == TRUE
\* "if (current_brightness != last_brightness)"
ColourChange(last_brightness, current_brightness) == current_brightness # last_brightness

\* the fast-drop loop of a cell: the first fast drop that paints (r, c), if any
RECURSIVE FastPaintFrom(_, _, _, _)
FastPaintFrom(fs, r, c, fi) ==
  IF fi >= MAX_FAST THEN [painted |-> FALSE, brightness |-> 0, ch |-> " "]
  ELSE LET f == fs[fi] IN
       IF ~f.active \/ f.col # c THEN FastPaintFrom(fs, r, c, fi + 1)
       ELSE IF f.row = r
         THEN [painted |-> TRUE, brightness |-> 4, ch |-> charForFast(f)]
       ELSE IF f.row - 1 = r
         THEN [painted |-> TRUE, brightness |-> 2, ch |-> charForFast(f)]
       ELSE FastPaintFrom(fs, r, c, fi + 1)

\* the crawling-drop loop of a cell
RECURSIVE DropPaintFrom(_, _, _, _)
DropPaintFrom(s, r, c, di) ==
  IF di >= MAX_DROPS THEN [painted |-> FALSE, brightness |-> 0, ch |-> " "]
  ELSE LET d == s.drops[di]
           dist == d.head - r
       IN  IF d.head = -1 \/ d.col # c THEN DropPaintFrom(s, r, c, di + 1)
           ELSE IF dist >= 0 /\ dist < d.trail
             THEN [painted |-> TRUE,
                   brightness |-> get_bright_slot(s.drop_bright_packed, di, dist),
                   ch |-> charset_at_idx(s.drop_char_idx[di][dist])]
           ELSE DropPaintFrom(s, r, c, di + 1)

\* current_brightness and ch of cell (r, c)
CellPaint(s, r, c) ==
  LET fp == FastPaintFrom(s.fasts, r, c, 0)
  IN  IF fp.painted THEN fp
      ELSE IF s.column_occupied[c] THEN DropPaintFrom(s, r, c, 0)
      ELSE [painted |-> FALSE, brightness |-> 0, ch |-> " "]

\* the two nested loops of renderFrame from cell n (row-major) on
RECURSIVE RenderFrom(_, _, _, _)
RenderFrom(s, n, last_brightness, out) ==
  IF n >= TERM_ROWS * TERM_COLS THEN out
  ELSE LET r == n \div TERM_COLS
           c == n % TERM_COLS
           p == CellPaint(s, r, c)
           changed == ColourChange(last_brightness, p.brightness)
           colour == IF changed THEN << term_set_color(p.brightness) >> ELSE << >>
           eol == IF c = TERM_COLS - 1 /\ r < TERM_ROWS - 1 THEN << "\r\n" >> ELSE << >>
       IN  RenderFrom(s, n + 1,
                      IF changed THEN p.brightness ELSE last_brightness,
                      out \o colour \o << p.ch >> \o eol)

renderFrame(s) ==
  RenderFrom(s, 0, 255, << "ESC[H" >>) \o term_reset_color

(***************************************************************************)
(* The simulation state as a record, and back.                             *)
(***************************************************************************)
Sim ==
  [ drops |-> drops, fasts |-> fasts, column_occupied |-> column_occupied,
    drop_char_idx |-> drop_char_idx, drop_bright_packed |-> drop_bright_packed ]

SetSim(s) ==
  /\ drops' = s.drops
  /\ fasts' = s.fasts
  /\ column_occupied' = s.column_occupied
  /\ drop_char_idx' = s.drop_char_idx
  /\ drop_bright_packed' = s.drop_bright_packed

SimIs(s) ==
  /\ drops = s.drops
  /\ fasts = s.fasts
  /\ column_occupied = s.column_occupied
  /\ drop_char_idx = s.drop_char_idx
  /\ drop_bright_packed = s.drop_bright_packed

(***************************************************************************)
(* SpecV: vectorized.ino, one step per state-changing call of loop().      *)
(***************************************************************************)
InitV ==
  /\ SimIs(setupState)
  /\ spawn_roll = 255
  /\ global_rng = << >>
  /\ cols = << >>
  /\ serial = setup_output
  /\ pc = "maybeSpawnDrop"

Call_maybeSpawnDrop ==
  /\ pc = "maybeSpawnDrop"
  /\ \E roll \in SpawnRolls, r2 \in ColDraws, g \in SpawnDraws, h \in HashDraws :
        SetSim(maybeSpawnDrop(Sim, roll, r2, g, h))
  /\ pc' = "maybeSpawnFastDrop"
  /\ UNCHANGED <<spawn_roll, global_rng, cols, serial>>

Call_maybeSpawnFastDrop ==
  /\ pc = "maybeSpawnFastDrop"
  /\ \E roll \in FastRolls, r2 \in ColDraws, h \in HashDraws :
        SetSim(maybeSpawnFastDrop(Sim, roll, r2, h))
  /\ pc' = "stepDrops"
  /\ UNCHANGED <<spawn_roll, global_rng, cols, serial>>

Call_stepDrops ==
  /\ pc = "stepDrops"
  /\ \E h \in HashDraws : SetSim(stepDrops(Sim, h))
  /\ pc' = "stepFastDrops"
  /\ UNCHANGED <<spawn_roll, global_rng, cols, serial>>

Call_stepFastDrops ==
  /\ pc = "stepFastDrops"
  /\ \E h \in HashDraws : SetSim(stepFastDrops(Sim, h))
  /\ pc' = "maybeSpawnDrop"
  /\ UNCHANGED <<spawn_roll, global_rng, cols, serial>>

NextV ==
  \/ Call_maybeSpawnDrop
  \/ Call_maybeSpawnFastDrop
  \/ Call_stepDrops
  \/ Call_stepFastDrops

SpecV == InitV /\ [][NextV]_vars

(***************************************************************************)
(* SpecLoop: vectorized.ino, one step per call of loop().                  *)
(***************************************************************************)
Loop ==
  /\ pc = "maybeSpawnDrop"
  /\ \E roll \in SpawnRolls, h \in HashDraws :
        \E s1 \in {maybeSpawnDrop(Sim, roll, r2, g, h) : r2 \in ColDraws, g \in SpawnDraws} :
        \E s2 \in {maybeSpawnFastDrop(s1, froll, fr2, h) : froll \in FastRolls, fr2 \in ColDraws} :
        \E s3 \in {stepDrops(s2, h)} :
        \E s4 \in {stepFastDrops(s3, h)} :
            /\ SetSim(s4)
            /\ serial' = renderFrame(s4)
            /\ spawn_roll' = roll
  /\ UNCHANGED <<global_rng, cols, pc>>

SpecLoop == InitV /\ [][Loop]_vars

(***************************************************************************)
(* Claims about vectorized.ino.                                            *)
(***************************************************************************)
Active(d) == d.head # -1

ActiveDrops == {i \in DropIdx : Active(drops[i])}

\* C1, part 1: no two active Drops have the same col.
C1_OneDropPerColumn ==
  \A i, j \in DropIdx :
    (i # j /\ Active(drops[i]) /\ Active(drops[j])) => drops[i].col # drops[j].col

\* C1, part 2: a Drop that becomes active takes a column whose flag was false.
C1_SpawnsInFreeColumn ==
  \A i \in DropIdx :
    (~Active(drops[i]) /\ Active(drops'[i])) => ~column_occupied[drops'[i].col]

\* C1: after setupState and any sequence of the four calls of a tick, no two
\* active Drops share a column, and maybeSpawnDrop never activates a Drop in a
\* column whose column_occupied flag is true.
C1_Thm == [](C1_OneDropPerColumn) /\ [][C1_SpawnsInFreeColumn]_vars

\* C1 witness: every Drop slot is active at once (maybeSpawnDrop chose among
\* columns of which one was taken).
C1_Witness == \A i \in DropIdx : Active(drops[i])

\* C2: after every call of a tick, column_occupied[c] is true if and only if
\* some active Drop has col = c.
C2_Thm ==
  \A c \in ColIdx :
    column_occupied[c] <=> (\E i \in DropIdx : Active(drops[i]) /\ drops[i].col = c)

\* C2 witness: a Drop that was active has been deactivated and its column is
\* free, while another Drop is active.
C2_Witness ==
  \E i, j \in DropIdx :
    /\ ~Active(drops[i]) /\ drops[i].trail # 0 /\ ~column_occupied[drops[i].col]
    /\ Active(drops[j])

\* C3: over one loop(), a Drop active before and after has not moved up, and
\* a head that got smaller is the sentinel -1.
C3_HeadMonotonic ==
  \A i \in DropIdx :
    /\ (Active(drops[i]) /\ Active(drops'[i])) => drops'[i].head >= drops[i].head
    /\ drops'[i].head < drops[i].head => drops'[i].head = -1

\* C3: for every Drop slot and every pair of consecutive ticks, the head does
\* not decrease while the Drop is active; the only decrease is to -1.
C3_Thm == [][C3_HeadMonotonic]_vars

\* C3 witness: a Drop has advanced twice, another slot has been deactivated.
C3_Witness ==
  \E i, j \in DropIdx :
    drops[i].head >= 2 /\ ~Active(drops[j]) /\ drops[j].trail # 0

\* what C5 says of the tables after the first tick, given the head row it names
C5_After(headOf(_)) ==
  /\ Cardinality({i \in DropIdx : Active(drops'[i])}) = 1
  /\ \A i \in DropIdx :
       Active(drops'[i]) =>
         /\ drops'[i].head = headOf(drops'[i])
         /\ ~column_occupied[drops'[i].col]
         /\ column_occupied'[drops'[i].col]
         /\ drops'[i].trail \in 3 .. MAX_TRAIL
         /\ drops'[i].speed \in 1 .. 5

C5_HeadZero(d) == 0
C5_HeadAfterStep(d) == IF d.speed = 1 THEN 1 ELSE 0

\* a loop() that starts in the state of setupState and whose spawn roll succeeds
C5_FirstTickSpawns == SimIs(setupState) /\ spawn_roll' <= SPAWN_CHANCE

\* C5 as claimed: after that tick exactly one Drop is active, at row 0, in a
\* column that was free and is now flagged, with trail in 3..MAX_TRAIL and
\* speed in 1..5.
C5_Original == [][C5_FirstTickSpawns => C5_After(C5_HeadZero)]_vars

\* C5 as amended: the same, but the head is at row 0 only for speed >= 2; a
\* Drop of speed 1 has already been advanced to row 1 by stepDrops of that tick.
C5_Thm == [][C5_FirstTickSpawns => C5_After(C5_HeadAfterStep)]_vars

\* C5 witness: the only Drop ever spawned is in its first tick, at row 1 with speed 1.
C5_Witness ==
  /\ spawn_roll <= SPAWN_CHANCE
  /\ Active(drops[0]) /\ drops[0].speed = 1 /\ drops[0].head = 1
  /\ \A i \in DropIdx \ {0} : drops[i].trail = 0

\* C6, part 1: an active Drop of speed 1 has head < TERM_ROWS + trail
\* (its head counts the stepDrops calls since its spawn at head 0).
C6_Bounded ==
  \A i \in DropIdx :
    (Active(drops[i]) /\ drops[i].speed = 1) => drops[i].head < TERM_ROWS + drops[i].trail

\* C6, part 2: stepDrops moves an active Drop of speed 1 down by one row or
\* deactivates it, and for every Drop the head becomes -1 in exactly the step
\* in which its column flag goes from true to false.
C6_Step ==
  /\ pc = "stepDrops" =>
       \A i \in DropIdx :
         (Active(drops[i]) /\ drops[i].speed = 1) =>
            drops'[i].head = drops[i].head + 1 \/ drops'[i].head = -1
  /\ \A i \in DropIdx :
       Active(drops[i]) =>
         ((drops'[i].head = -1) <=>
            (column_occupied[drops[i].col] /\ ~column_occupied'[drops[i].col]))

\* C6: a Drop of speed 1 stepped from head 0 is inactive after at most
\* TERM_ROWS + trail calls of stepDrops, and its column flag clears in the
\* same call in which its head becomes -1.
C6_Thm == [](C6_Bounded) /\ [][C6_Step]_vars

\* C6 witness: stepDrops has just run and a Drop of speed 1 that was spawned
\* is inactive with its column free, while the other slots were never used.
C6_Witness ==
  \E i \in DropIdx :
    /\ pc = "stepFastDrops"
    /\ ~Active(drops[i]) /\ drops[i].speed = 1 /\ drops[i].trail # 0
    /\ ~column_occupied[drops[i].col]
    /\ \A j \in DropIdx \ {i} : drops[j].trail = 0

\* C8: an active FastDrop becomes inactive only if, after its move, its row is
\* >= TERM_ROWS or >= the head of the active Drop in its column.
C8_StopsOnlyAtHeadOrBottom ==
  \A fi \in FastIdx :
    (fasts[fi].active /\ ~fasts'[fi].active) =>
       \/ fasts'[fi].row >= TERM_ROWS
       \/ \E di \in DropIdx :
            /\ Active(drops[di]) /\ drops[di].col = fasts[fi].col
            /\ fasts'[fi].row >= drops[di].head

\* C8 as claimed (the code stops the FastDrop at the top cell of the trail).
C8_Claim == [][C8_StopsOnlyAtHeadOrBottom]_vars

\* the brightness level renderFrame gives cell n (row-major)
C10_Level(n) == CellPaint(Sim, n \div TERM_COLS, n % TERM_COLS).brightness

C10_Cells == 0 .. TERM_ROWS * TERM_COLS - 1

\* a cell whose level differs from that of the cell before it (the first always does)
C10_Differs(n) == n = 0 \/ C10_Level(n) # C10_Level(n - 1)

RECURSIVE C10_FrameFrom(_)
C10_FrameFrom(n) ==
  IF n >= TERM_ROWS * TERM_COLS THEN << "ESC[0m" >>
  ELSE (IF C10_Differs(n) THEN << term_set_color(C10_Level(n)) >> ELSE << >>)
       \o << CellPaint(Sim, n \div TERM_COLS, n % TERM_COLS).ch >>
       \o (IF n % TERM_COLS = TERM_COLS - 1 /\ n \div TERM_COLS < TERM_ROWS - 1
             THEN << "\r\n" >> ELSE << >>)
       \o C10_FrameFrom(n + 1)

ColourEscapes == {"ESC[97;1m", "ESC[32;1m", "ESC[32m", "ESC[90m"}

\* serial holds a frame of renderFrame (not the output of setup)
Rendered == serial # setup_output

\* C10: a frame starts with the one cursor-home sequence, a colour escape
\* precedes a cell exactly when the cell's level differs from the previous
\* cell's, and the frame holds 1 + (number of level changes) colour escapes.
C10_Thm ==
  Rendered =>
    /\ serial[1] = "ESC[H"
    /\ Cardinality({k \in DOMAIN serial : serial[k] = "ESC[H"}) = 1
    /\ serial = << "ESC[H" >> \o C10_FrameFrom(0)
    /\ Cardinality({k \in DOMAIN serial : serial[k] \in ColourEscapes})
         = 1 + Cardinality({n \in C10_Cells : n > 0 /\ C10_Level(n) # C10_Level(n - 1)})

\* C10 witness: a frame with a level change and with two equal neighbours.
C10_Witness ==
  /\ Rendered
  /\ \E n \in C10_Cells : n > 0 /\ C10_Level(n) # C10_Level(n - 1)
  /\ \E n \in C10_Cells : n > 0 /\ C10_Level(n) = C10_Level(n - 1)

(***************************************************************************)
(* unnamed/part_000 (arduino_matrix_rain_fastdrops.ino).  The sketch keeps *)
(* drops, fasts and column_occupied only; the Drop and FastDrop rng words  *)
(* feed glyphs alone and are not part of the model.                        *)
(***************************************************************************)
FD_SPAWN_CHANCE == 35
FD_SPAWN_FAST_CHANCE == 18

FD_SpawnRolls == {FD_SPAWN_CHANCE, FD_SPAWN_CHANCE + 1}
FD_FastRolls == {FD_SPAWN_FAST_CHANCE, FD_SPAWN_FAST_CHANCE + 1}

\* the tables at power-up (zero-initialised globals) after setupState
FD_setupState ==
  [ drops |-> [i \in DropIdx |->
                 [col |-> 0, head |-> -1, trail |-> 0, speed |-> 0, age |-> 0, boost |-> 0]],
    fasts |-> [i \in FastIdx |->
                 [active |-> FALSE, col |-> 0, row |-> 0, speed |-> 0, age |-> 0]],
    column_occupied |-> [c \in ColIdx |-> FALSE] ]

\* roll = global_rng & 0xFF, r2 and g the next two words of global_rng
FD_maybeSpawnDrop(s, roll, r2, g) ==
  IF roll > FD_SPAWN_CHANCE THEN s
  ELSE
    LET idx == FirstFrom([i \in DropIdx |-> s.drops[i].head = -1], 0, MAX_DROPS)
    IN  IF idx = -1 THEN s
        ELSE
          LET start_col == U8(r2 % TERM_COLS)
              free_col  == ScanColumns(s.column_occupied, start_col, 0, FALSE)
          IN  IF free_col = -1 THEN s
              ELSE [s EXCEPT
                      !.drops[idx] =
                         [col |-> free_col, head |-> 0, trail |-> U8(SpawnTrail(g)),
                          speed |-> U8(SpawnSpeed(g)), age |-> 0, boost |-> 0],
                      !.column_occupied[free_col] = TRUE]

FD_maybeSpawnFastDrop(s, roll, r2) ==
  IF roll > FD_SPAWN_FAST_CHANCE THEN s
  ELSE
    LET start_col     == U8(r2 % TERM_COLS)
        col_with_drop == ScanColumns(s.column_occupied, start_col, 0, TRUE)
    IN  IF col_with_drop = -1 THEN s
        ELSE
          LET fidx == FirstFrom([i \in FastIdx |-> ~s.fasts[i].active], 0, MAX_FAST)
          IN  IF fidx = -1 THEN s
              ELSE [s EXCEPT !.fasts[fidx] =
                      [active |-> TRUE, col |-> col_with_drop, row |-> 0,
                       speed |-> 1, age |-> 0]]

\* the body of the loop of stepDrops for drop i
FD_StepDrop(s, i) ==
  LET d == s.drops[i] IN
  IF d.head = -1 THEN s
  ELSE
    LET age1 == U8(d.age + 1)
        d1   == IF age1 >= d.speed
                  THEN [d EXCEPT !.age = 0, !.head = d.head + 1,
                                 !.boost = IF d.boost # 0 THEN d.boost - 1 ELSE 0]
                  ELSE [d EXCEPT !.age = age1]
    IN  IF d1.head - (d1.trail - 1) >= TERM_ROWS
          THEN [s EXCEPT
                  !.column_occupied[d1.col] = FALSE,
                  !.drops[i] = [d1 EXCEPT !.head = -1, !.boost = 0]]
          ELSE [s EXCEPT !.drops[i] = d1]

RECURSIVE FD_StepDropsFrom(_, _)
FD_StepDropsFrom(s, i) ==
  IF i >= MAX_DROPS THEN s ELSE FD_StepDropsFrom(FD_StepDrop(s, i), i + 1)

FD_stepDrops(s) == FD_StepDropsFrom(s, 0)

\* mutant: the fast drop lands only after it has passed the head
FD_Lands_Past(d, row) == row > d.head

\* "if (f.row >= d.head)": the fast drop lands on the head
FD_Lands(d, row) == row >= d.head

\* the body of the loop of stepFastDrops for fast drop i
FD_StepFast(s, i) ==
  LET f == s.fasts[i] IN
  IF ~f.active THEN s
  ELSE
    LET age1 == U8(f.age + 1) IN
    IF age1 < f.speed THEN [s EXCEPT !.fasts[i].age = age1]
    ELSE
      LET row1 == f.row + 1
          f1   == [f EXCEPT !.age = 0, !.row = row1]
      IN  IF row1 >= TERM_ROWS THEN [s EXCEPT !.fasts[i] = [f1 EXCEPT !.active = FALSE]]
          ELSE
            LET di == findDropIndexInColumn(s.drops, f.col) IN
            IF di = -1 THEN [s EXCEPT !.fasts[i] = f1]
            ELSE
              LET d == s.drops[di] IN
              IF FD_Lands(d, row1)
                THEN [s EXCEPT
                        !.drops[di].boost = IF d.boost < 4 THEN 4 ELSE d.boost,
                        !.fasts[i] = [f1 EXCEPT !.active = FALSE]]
                ELSE [s EXCEPT !.fasts[i] = f1]

RECURSIVE FD_StepFastsFrom(_, _)
FD_StepFastsFrom(s, i) ==
  IF i >= MAX_FAST THEN s ELSE FD_StepFastsFrom(FD_StepFast(s, i), i + 1)

FD_stepFastDrops(s) == FD_StepFastsFrom(s, 0)

FD_Sim == [drops |-> drops, fasts |-> fasts, column_occupied |-> column_occupied]

FD_SetSim(s) ==
  /\ drops' = s.drops
  /\ fasts' = s.fasts
  /\ column_occupied' = s.column_occupied

\* setup(): the tables of setupState; the brightness and glyph tables do not exist here
InitFD ==
  /\ drops = FD_setupState.drops
  /\ fasts = FD_setupState.fasts
  /\ column_occupied = FD_setupState.column_occupied
  /\ drop_char_idx = << >>
  /\ drop_bright_packed = << >>
  /\ spawn_roll = 255
  /\ global_rng = << >>
  /\ cols = << >>
  /\ serial = setup_output
  /\ pc = "maybeSpawnDrop"

FD_Rest == <<drop_char_idx, drop_bright_packed, spawn_roll, global_rng, cols, serial>>

FD_Call_maybeSpawnDrop ==
  /\ pc = "maybeSpawnDrop"
  /\ \E roll \in FD_SpawnRolls, r2 \in ColDraws, g \in SpawnDraws :
        FD_SetSim(FD_maybeSpawnDrop(FD_Sim, roll, r2, g))
  /\ pc' = "maybeSpawnFastDrop"
  /\ UNCHANGED FD_Rest

FD_Call_maybeSpawnFastDrop ==
  /\ pc = "maybeSpawnFastDrop"
  /\ \E roll \in FD_FastRolls, r2 \in ColDraws :
        FD_SetSim(FD_maybeSpawnFastDrop(FD_Sim, roll, r2))
  /\ pc' = "stepDrops"
  /\ UNCHANGED FD_Rest

FD_Call_stepDrops ==
  /\ pc = "stepDrops"
  /\ FD_SetSim(FD_stepDrops(FD_Sim))
  /\ pc' = "stepFastDrops"
  /\ UNCHANGED FD_Rest

\* stepFastDrops is the last call of loop() that changes the tables
FD_Call_stepFastDrops ==
  /\ pc = "stepFastDrops"
  /\ FD_SetSim(FD_stepFastDrops(FD_Sim))
  /\ pc' = "maybeSpawnDrop"
  /\ UNCHANGED FD_Rest

NextFD ==
  \/ FD_Call_maybeSpawnDrop
  \/ FD_Call_maybeSpawnFastDrop
  \/ FD_Call_stepDrops
  \/ FD_Call_stepFastDrops

SpecFD == InitFD /\ [][NextFD]_vars

(***************************************************************************)
(* Claims about unnamed/part_000.                                          *)
(***************************************************************************)
\* the active Drops in the column of fast drop fi
C7_DropsUnder(fi) ==
  {di \in DropIdx : Active(drops[di]) /\ drops[di].col = fasts[fi].col}

\* C7, part 1: between ticks no active FastDrop is at or below the head of the
\* active Drop in its column.
C7_AboveHeadAtTickEnd ==
  pc = "maybeSpawnDrop" =>
    \A fi \in FastIdx :
      fasts[fi].active => \A di \in C7_DropsUnder(fi) : fasts[fi].row < drops[di].head

\* a FastDrop that stepFastDrops moves to a row at or past the head of the
\* active Drop in its column, with the rows the move may end on
C7_Reaches(fi, di, rows) ==
  /\ pc = "stepFastDrops"
  /\ fasts[fi].active
  /\ di \in C7_DropsUnder(fi)
  /\ fasts'[fi].row # fasts[fi].row
  /\ fasts'[fi].row >= drops[di].head
  /\ fasts'[fi].row \in rows

C7_LandsAndBoosts(rows) ==
  \A fi \in FastIdx, di \in DropIdx :
    C7_Reaches(fi, di, rows) => (~fasts'[fi].active /\ drops'[di].boost # 0)

\* C7 as claimed: no active FastDrop is at or below the head at the end of a
\* tick, and a FastDrop that reaches or passes the head in a tick is inactive
\* and the Drop's boost nonzero at the end of that tick.
C7_Original == [](C7_AboveHeadAtTickEnd) /\ [][C7_LandsAndBoosts(0 .. TERM_ROWS)]_vars

\* C7 as amended: the same, the boost being promised only when the FastDrop's
\* new row is on the screen (below TERM_ROWS); a FastDrop that reaches a head
\* at row TERM_ROWS leaves by the bottom check and boosts nothing.
C7_Thm == [](C7_AboveHeadAtTickEnd) /\ [][C7_LandsAndBoosts(0 .. TERM_ROWS - 1)]_vars

\* C7 witness: a FastDrop has landed on a head on the screen: it is inactive
\* at the head's row and the Drop carries the full boost of this tick.
C7_Witness ==
  \E fi \in FastIdx, di \in DropIdx :
    /\ pc = "maybeSpawnDrop"
    /\ ~fasts[fi].active /\ fasts[fi].row >= 1 /\ fasts[fi].row < TERM_ROWS
    /\ Active(drops[di]) /\ drops[di].col = fasts[fi].col
    /\ drops[di].head = fasts[fi].row
    /\ drops[di].boost = 4

(***************************************************************************)
(* Arduino_rain_opt.ino: one Column record per terminal column.  The rng   *)
(* word of a Column is not kept: each nextRng(cols[c].rng) is a draw.      *)
(***************************************************************************)
\* terminal rows of this sketch; MAX_TRAIL = min(TERM_ROWS, 12) needs more than two
Col_TERM_ROWS == 4

\* "const uint8_t MAX_TRAIL = min((uint8_t)TERM_ROWS, (uint8_t)12)", 12 being MAX_TRAIL here
Col_MAX_TRAIL == IF Col_TERM_ROWS < MAX_TRAIL THEN Col_TERM_ROWS ELSE MAX_TRAIL

\* "(v & 0xFF) < 24" and "(nextRng(col.rng) & 0x7F) < 48"
Col_SPAWN_BELOW == 24
Col_RETIRE_BELOW == 48

\* words drawn in maybeSpawnHeads: low byte around the threshold, second byte the speed
Col_SpawnWords ==
  {lo + 256 * hi : lo \in Col_SPAWN_BELOW - 2 .. Col_SPAWN_BELOW, hi \in 0 .. MaxSpeedDraw}

\* words drawn in stepColumns when a head has left the screen
Col_RetireWords == {Col_RETIRE_BELOW - 1, Col_RETIRE_BELOW, Col_RETIRE_BELOW + 128}

\* setupColumns: every column inactive, trail and speed drawn, age 0
Col_setupColumns(tr, sp) ==
  [c \in ColIdx |->
     [head |-> -1, trail |-> (tr[c] % (Col_MAX_TRAIL - 2)) + 3,
      speed |-> (sp[c] % 5) + 1, age |-> 0]]

\* maybeSpawnHeads: v[c] is the word drawn for column c (drawn only if it is inactive)
Col_maybeSpawnHeads(cs, v) ==
  [c \in ColIdx |->
     IF cs[c].head = -1 /\ BitAnd(v[c], 255) < Col_SPAWN_BELOW
       THEN [head |-> 0, trail |-> U8((v[c] % (Col_MAX_TRAIL - 2)) + 3),
             speed |-> U8((Shr(v[c], 8) % 5) + 1), age |-> 0]
       ELSE cs[c]]

\* mutant: the head is taken off as soon as it leaves the screen, the trail still on it
Col_PastBottom_NoTrail(head, trail) == head >= Col_TERM_ROWS

\* "if (col.head >= TERM_ROWS + col.trail)"
Col_PastBottom(head, trail) == head >= Col_TERM_ROWS + trail

\* the body of the loop of stepColumns for one column; k is the word drawn at the bottom
Col_StepColumn(col, k) ==
  IF col.head = -1 THEN col
  ELSE
    LET age1 == U8(col.age + 1) IN
    IF age1 < col.speed THEN [col EXCEPT !.age = age1]
    ELSE
      LET head1 == col.head + 1 IN
      IF Col_PastBottom(head1, col.trail)
        THEN [col EXCEPT !.age = 0,
                         !.head = IF BitAnd(k, 127) < Col_RETIRE_BELOW THEN -1 ELSE 0]
        ELSE [col EXCEPT !.age = 0, !.head = head1]

Col_stepColumns(cs, k) == [c \in ColIdx |-> Col_StepColumn(cs[c], k[c])]

\* setup(): setupColumns with the two words it draws per column
InitCol ==
  /\ \E tr \in [ColIdx -> 0 .. Col_MAX_TRAIL - 3], sp \in [ColIdx -> 0 .. MaxSpeedDraw] :
        cols = Col_setupColumns(tr, sp)
  /\ drops = << >>
  /\ fasts = << >>
  /\ column_occupied = << >>
  /\ drop_char_idx = << >>
  /\ drop_bright_packed = << >>
  /\ spawn_roll = 255
  /\ global_rng = << >>
  /\ serial = setup_output
  /\ pc = "maybeSpawnHeads"

Col_Rest ==
  <<drops, fasts, column_occupied, drop_char_idx, drop_bright_packed, spawn_roll,
    global_rng, serial>>

Col_Call_maybeSpawnHeads ==
  /\ pc = "maybeSpawnHeads"
  /\ \E v \in [ColIdx -> Col_SpawnWords] : cols' = Col_maybeSpawnHeads(cols, v)
  /\ pc' = "stepColumns"
  /\ UNCHANGED Col_Rest

Col_Call_stepColumns ==
  /\ pc = "stepColumns"
  /\ \E k \in [ColIdx -> Col_RetireWords] : cols' = Col_stepColumns(cols, k)
  /\ pc' = "maybeSpawnHeads"
  /\ UNCHANGED Col_Rest

NextCol ==
  \/ Col_Call_maybeSpawnHeads
  \/ Col_Call_stepColumns

SpecCol == InitCol /\ [][NextCol]_vars

(***************************************************************************)
(* Claims about Arduino_rain_opt.ino.                                      *)
(***************************************************************************)
\* stepColumns leaves the head of active column c where it is, moves it down, or sets it to -1
C4_NoLowerRow(c) ==
  (pc = "stepColumns" /\ cols[c].head # -1) =>
     (cols'[c].head >= cols[c].head \/ cols'[c].head = -1)

\* C4 as claimed: stepColumns never changes an active column's head to a
\* smaller value other than the sentinel -1.
C4_Original == [][\A c \in ColIdx : C4_NoLowerRow(c)]_vars

\* stepColumns lowers an active head only from the last row TERM_ROWS + trail - 1
\* it can hold, and then to -1 or to row 0
C4_LowersOnlyAtBottom(c) ==
  (pc = "stepColumns" /\ cols[c].head # -1) =>
     \/ cols'[c].head = cols[c].head
     \/ cols'[c].head = cols[c].head + 1
     \/ /\ cols[c].head + 1 >= Col_TERM_ROWS + cols[c].trail
        /\ cols'[c].head \in {-1, 0}

\* C4 as amended: while a column is active stepColumns only keeps or
\* increments its head, except that a head whose increment reaches
\* TERM_ROWS + trail is reset, either to the sentinel -1 or to row 0.
C4_Thm == [][\A c \in ColIdx : C4_LowersOnlyAtBottom(c)]_vars

\* C4 witness: stepColumns has just restarted a column at row 0 (a column of
\* speed 1 spawned at row 0 by maybeSpawnHeads is at row 1 after stepColumns,
\* so head 0 with age 0 here comes from the reset at the bottom).
C4_Witness ==
  \E c \in ColIdx :
    /\ pc = "maybeSpawnHeads"
    /\ cols[c].head = 0 /\ cols[c].age = 0 /\ cols[c].speed = 1

(***************************************************************************)
(* tested/basic_colorized.ino.  Drops carry head_row, the top row of the   *)
(* drop; the packed brightness rows have one spare byte and are read and   *)
(* written through a 16-bit window.                                        *)
(***************************************************************************)
Fin_ByteIdx == 0 .. BRIGHT_BYTES_PER_DROP

\* words of global_rng from which maybeSpawnDrop takes column, trail and speed alike
Fin_SpawnWords ==
  {lo + 256 * hi : lo \in 0 .. TERM_COLS * (MAX_TRAIL - 2) - 1, hi \in 0 .. MaxSpeedDraw}

Fin_term_set_color(bright) ==
  CASE bright = 4 -> "ESC[37m"
    [] bright = 3 -> "ESC[32m"
    [] bright = 2 -> "ESC[33m"
    [] OTHER      -> "ESC[31m"

\* the 16-bit window "packed[byteIdx] | (packed[byteIdx + 1] << 8)"
Fin_Window(bp, drop_idx, byteIdx) ==
  bp[drop_idx][byteIdx] + 256 * bp[drop_idx][byteIdx + 1]

Fin_get_bright_slot(bp, drop_idx, slot) ==
  LET bitpos  == slot * 2
      byteIdx == bitpos \div 8
      bitOff  == bitpos % 8
  IN  (Fin_Window(bp, drop_idx, byteIdx) \div Pow2(bitOff)) % 4

\* "val &= 0x03u": the two bits at bitOff are replaced by the low two bits of val
Fin_set_bright_slot(bp, drop_idx, slot, val0) ==
  LET val     == val0 % 4
      bitpos  == slot * 2
      byteIdx == bitpos \div 8
      bitOff  == bitpos % 8
      data0   == Fin_Window(bp, drop_idx, byteIdx)
      old     == (data0 \div Pow2(bitOff)) % 4
      data    == data0 - old * Pow2(bitOff) + val * Pow2(bitOff)
  IN  [bp EXCEPT ![drop_idx][byteIdx] = data % 256,
                 ![drop_idx][byteIdx + 1] = data \div 256]

Fin_setupState ==
  [ drops |-> [i \in DropIdx |->
                 [col |-> 0, head_row |-> -1, trail |-> 0, speed |-> 0, age |-> 0,
                  boost |-> 0]],
    fasts |-> [i \in FastIdx |->
                 [active |-> FALSE, col |-> 0, row |-> 0, speed |-> 0, age |-> 0, rng |-> 0]],
    column_occupied |-> [c \in ColIdx |-> FALSE],
    drop_char_idx |-> [i \in DropIdx |-> [k \in SlotIdx |-> 0]],
    drop_bright_packed |-> [i \in DropIdx |-> [b \in Fin_ByteIdx |-> 0]] ]

RECURSIVE Fin_FindDropFrom(_, _, _)
Fin_FindDropFrom(ds, col, i) ==
  IF i >= MAX_DROPS THEN -1
  ELSE IF ds[i].head_row # -1 /\ ds[i].col = col THEN i
  ELSE Fin_FindDropFrom(ds, col, i + 1)

Fin_findDropIndexInColumn(ds, col) == Fin_FindDropFrom(ds, col, 0)

\* the two loops of maybeSpawnDrop over the slots k, k + 1, ..., MAX_TRAIL - 1
RECURSIVE Fin_InitSlots(_, _, _, _)
Fin_InitSlots(bp, idx, k, trail) ==
  IF k >= MAX_TRAIL THEN bp
  ELSE LET b == IF k >= trail THEN 0 ELSE IF k = 0 THEN 4 ELSE IF k = 1 THEN 3 ELSE 1
       IN  Fin_InitSlots(Fin_set_bright_slot(bp, idx, k, b), idx, k + 1, trail)

\* roll = global_rng & 0xFF, w the next word of global_rng, h a glyph word
Fin_maybeSpawnDrop(s, roll, w, h) ==
  IF roll > SPAWN_CHANCE THEN s
  ELSE
    LET idx == FirstFrom([i \in DropIdx |-> s.drops[i].head_row = -1], 0, MAX_DROPS)
    IN  IF idx = -1 THEN s
        ELSE
          LET start_col == U8(w % TERM_COLS)
              free_col  == ScanColumns(s.column_occupied, start_col, 0, FALSE)
          IN  IF free_col = -1 THEN s
              ELSE
                LET trail == U8((w % (MAX_TRAIL - 2)) + 3)
                IN  [s EXCEPT
                       !.drops[idx] =
                          [col |-> free_col, head_row |-> 0, trail |-> trail,
                           speed |-> U8((Shr(w, 8) % 5) + 1), age |-> 0, boost |-> 0],
                       !.drop_char_idx[idx] =
                          [k \in SlotIdx |-> IF k < trail THEN pickIndex(h) ELSE 0],
                       !.drop_bright_packed = Fin_InitSlots(@, idx, 0, trail),
                       !.column_occupied[free_col] = TRUE]

Fin_maybeSpawnFastDrop(s, roll, r2, h) ==
  IF roll > SPAWN_FAST_CHANCE THEN s
  ELSE
    LET start_col     == U8(r2 % TERM_COLS)
        col_with_drop == ScanColumns(s.column_occupied, start_col, 0, TRUE)
    IN  IF col_with_drop = -1 THEN s
        ELSE
          LET fidx == FirstFrom([i \in FastIdx |-> ~s.fasts[i].active], 0, MAX_FAST)
          IN  IF fidx = -1 THEN s
              ELSE [s EXCEPT !.fasts[fidx] =
                      [active |-> TRUE, col |-> col_with_drop, row |-> 0,
                       speed |-> 1, age |-> 0, rng |-> h]]

\* "for (k = d.trail - 1; k > 0; --k) set_bright_slot(i, k, val)" with val = 4
RECURSIVE Fin_FillSlots(_, _, _, _)
Fin_FillSlots(bp, i, k, val) ==
  IF k <= 0 THEN bp ELSE Fin_FillSlots(Fin_set_bright_slot(bp, i, k, val), i, k - 1, val)

\* "for (k = d.trail - 1; k > 0; --k) set_bright_slot(i, k, get_bright_slot(i, k - 1))"
RECURSIVE Fin_ShiftSlots(_, _, _)
Fin_ShiftSlots(bp, i, k) ==
  IF k <= 0 THEN bp
  ELSE Fin_ShiftSlots(Fin_set_bright_slot(bp, i, k, Fin_get_bright_slot(bp, i, k - 1)),
                      i, k - 1)

\* the brightness rows after the advance branch of stepDrops for drop i
Fin_AdvanceBright(bp, i, trail, boost) ==
  LET bp1 == Fin_FillSlots(bp, i, trail - 1, 4)
      bp2 == Fin_ShiftSlots(bp1, i, trail - 1)
      head_val == IF boost > 0 THEN 4 ELSE Fin_get_bright_slot(bp2, i, 0)
  IN  Fin_set_bright_slot(bp2, i, 0, head_val)

Fin_all_faded(bp, i, trail) ==
  \A k \in 0 .. trail - 1 : Fin_get_bright_slot(bp, i, k) = 0

\* mutant: a faded Drop below the screen restarts at the top row instead of going inactive
Fin_StepDrop_Restart(s, i, h) ==
  LET d == s.drops[i] IN
  IF d.head_row = -1 THEN s
  ELSE
    LET age1 == U8(d.age + 1)
        adv  == age1 >= d.speed
        boost1 == IF d.boost # 0 THEN d.boost - 1 ELSE 0
        d1   == IF adv
                  THEN [d EXCEPT !.age = 0, !.head_row = d.head_row + 1, !.boost = boost1]
                  ELSE [d EXCEPT !.age = age1, !.boost = boost1]
        chars1 == IF adv
                    THEN [k \in SlotIdx |->
                            IF k = 0 THEN pickIndex(h)
                            ELSE IF k < d.trail THEN s.drop_char_idx[i][k - 1]
                            ELSE s.drop_char_idx[i][k]]
                    ELSE s.drop_char_idx[i]
        bp1  == IF adv
                  THEN Fin_AdvanceBright(s.drop_bright_packed, i, d.trail, d.boost)
                  ELSE s.drop_bright_packed
    IN  IF Fin_all_faded(bp1, i, d.trail) /\ d1.head_row >= TERM_ROWS
          THEN [s EXCEPT
                  !.column_occupied[d.col] = FALSE,
                  !.drops[i] = [d1 EXCEPT !.head_row = 0, !.boost = 0],
                  !.drop_char_idx[i] = chars1,
                  !.drop_bright_packed = bp1]
          ELSE [s EXCEPT
                  !.drops[i] = d1,
                  !.drop_char_idx[i] = chars1,
                  !.drop_bright_packed = bp1]

\* the body of the loop of stepDrops for drop i
Fin_StepDrop(s, i, h) ==
  LET d == s.drops[i] IN
  IF d.head_row = -1 THEN s
  ELSE
    LET age1 == U8(d.age + 1)
        adv  == age1 >= d.speed
        boost1 == IF d.boost # 0 THEN d.boost - 1 ELSE 0
        d1   == IF adv
                  THEN [d EXCEPT !.age = 0, !.head_row = d.head_row + 1, !.boost = boost1]
                  ELSE [d EXCEPT !.age = age1, !.boost = boost1]
        chars1 == IF adv
                    THEN [k \in SlotIdx |->
                            IF k = 0 THEN pickIndex(h)
                            ELSE IF k < d.trail THEN s.drop_char_idx[i][k - 1]
                            ELSE s.drop_char_idx[i][k]]
                    ELSE s.drop_char_idx[i]
        bp1  == IF adv
                  THEN Fin_AdvanceBright(s.drop_bright_packed, i, d.trail, d.boost)
                  ELSE s.drop_bright_packed
    IN  IF Fin_all_faded(bp1, i, d.trail) /\ d1.head_row >= TERM_ROWS
          THEN [s EXCEPT
                  !.column_occupied[d.col] = FALSE,
                  !.drops[i] = [d1 EXCEPT !.head_row = -1, !.boost = 0],
                  !.drop_char_idx[i] = chars1,
                  !.drop_bright_packed = bp1]
          ELSE [s EXCEPT
                  !.drops[i] = d1,
                  !.drop_char_idx[i] = chars1,
                  !.drop_bright_packed = bp1]

RECURSIVE Fin_StepDropsFrom(_, _, _)
Fin_StepDropsFrom(s, i, h) ==
  IF i >= MAX_DROPS THEN s ELSE Fin_StepDropsFrom(Fin_StepDrop(s, i, h), i + 1, h)

Fin_stepDrops(s, h) == Fin_StepDropsFrom(s, 0, h)

\* the body of the loop of stepFastDrops for fast drop i
Fin_StepFast(s, i, h) ==
  LET f == s.fasts[i] IN
  IF ~f.active THEN s
  ELSE
    LET age1 == U8(f.age + 1) IN
    IF age1 < f.speed THEN [s EXCEPT !.fasts[i].age = age1]
    ELSE
      LET row1 == f.row + 1
          f1   == [f EXCEPT !.age = 0, !.row = row1]
      IN  IF row1 >= TERM_ROWS THEN [s EXCEPT !.fasts[i] = [f1 EXCEPT !.active = FALSE]]
          ELSE
            LET di == Fin_findDropIndexInColumn(s.drops, f.col) IN
            IF di = -1 THEN [s EXCEPT !.fasts[i] = f1]
            ELSE
              LET d      == s.drops[di]
                  slot   == row1 - d.head_row
                  inside == slot >= 0 /\ slot < d.trail
                  b      == Fin_get_bright_slot(s.drop_bright_packed, di, slot)
                  chars1 == IF inside
                              THEN [s.drop_char_idx EXCEPT ![di][slot] = pickIndex(h)]
                              ELSE s.drop_char_idx
                  bp1    == IF inside /\ b < 3
                              THEN Fin_set_bright_slot(s.drop_bright_packed, di, slot, b + 1)
                              ELSE s.drop_bright_packed
              IN  IF slot = 0
                    THEN [s EXCEPT
                            !.drops[di].boost = IF d.boost < 8 THEN 8 ELSE d.boost,
                            !.drop_char_idx = chars1,
                            !.drop_bright_packed = Fin_set_bright_slot(bp1, di, 0, 4),
                            !.fasts[i] = [f1 EXCEPT !.active = FALSE]]
                    ELSE [s EXCEPT
                            !.drop_char_idx = chars1,
                            !.drop_bright_packed = bp1,
                            !.fasts[i] = f1]

RECURSIVE Fin_StepFastsFrom(_, _, _)
Fin_StepFastsFrom(s, i, h) ==
  IF i >= MAX_FAST THEN s ELSE Fin_StepFastsFrom(Fin_StepFast(s, i, h), i + 1, h)

Fin_stepFastDrops(s, h) == Fin_StepFastsFrom(s, 0, h)

\* C division, which truncates toward zero
CDiv(a, b) ==
  LET q == (IF a < 0 THEN -a ELSE a) \div (IF b < 0 THEN -b ELSE b)
  IN  IF (a < 0) = (b < 0) THEN q ELSE -q

\* Arduino's map(): (x - in_min) * (out_max - out_min) / (in_max - in_min) + out_min
map(x, in_min, in_max, out_min, out_max) ==
  CDiv((x - in_min) * (out_max - out_min), in_max - in_min) + out_min

constrain(x, lo, hi) == IF x < lo THEN lo ELSE IF x > hi THEN hi ELSE x

\* the fast-drop overlay of cell (r, c): the first fast drop of the column on row r or r + 1
RECURSIVE Fin_FastPaintFrom(_, _, _, _)
Fin_FastPaintFrom(fs, r, c, fi) ==
  IF fi >= MAX_FAST THEN [brightness |-> 0, ch |-> " "]
  ELSE IF ~fs[fi].active \/ fs[fi].col # c THEN Fin_FastPaintFrom(fs, r, c, fi + 1)
  ELSE IF fs[fi].row = r THEN [brightness |-> 4, ch |-> charForFast(fs[fi])]
  ELSE IF fs[fi].row - 1 = r THEN [brightness |-> 3, ch |-> charForFast(fs[fi])]
  ELSE Fin_FastPaintFrom(fs, r, c, fi + 1)

RECURSIVE Fin_DropPaintFrom(_, _, _, _)
Fin_DropPaintFrom(s, r, c, di) ==
  IF di >= MAX_DROPS THEN [brightness |-> 0, ch |-> " "]
  ELSE
    LET d    == s.drops[di]
        slot == r - d.head_row
    IN  IF d.head_row = -1 \/ d.col # c THEN Fin_DropPaintFrom(s, r, c, di + 1)
        ELSE IF slot >= 0 /\ slot < d.trail
          THEN [brightness |->
                  IF slot = d.trail - 1 THEN 4
                  ELSE constrain(U8(map(slot, d.trail, 0, 3, 1)), 0, 3),
                ch |-> charset_at_idx(s.drop_char_idx[di][slot])]
          ELSE Fin_DropPaintFrom(s, r, c, di + 1)

Fin_CellPaint(s, r, c) ==
  LET fp == Fin_FastPaintFrom(s.fasts, r, c, 0)
  IN  IF fp.brightness = 0 /\ s.column_occupied[c] THEN Fin_DropPaintFrom(s, r, c, 0) ELSE fp

\* the two nested loops of renderFrame from cell n (row-major) on
RECURSIVE Fin_RenderFrom(_, _, _, _)
Fin_RenderFrom(s, n, last_brightness, out) ==
  IF n >= TERM_ROWS * TERM_COLS THEN out
  ELSE
    LET r  == n \div TERM_COLS
        c  == n % TERM_COLS
        p  == Fin_CellPaint(s, r, c)
        o1 == IF p.brightness # last_brightness
                THEN Append(out, Fin_term_set_color(p.brightness)) ELSE out
        o2 == Append(o1, p.ch)
        o3 == IF c = TERM_COLS - 1 /\ r < TERM_ROWS - 1 THEN Append(o2, "\r\n") ELSE o2
    IN  Fin_RenderFrom(s, n + 1, p.brightness, o3)

\* cursor home, the "term_set_color(2)" ahead of the loops, the cells, the reset
Fin_renderFrame(s) ==
  Fin_RenderFrom(s, 0, 255, << "ESC[H", Fin_term_set_color(2) >>) \o term_reset_color

InitFin ==
  /\ SimIs(Fin_setupState)
  /\ spawn_roll = 255
  /\ global_rng = << >>
  /\ cols = << >>
  /\ serial = setup_output
  /\ pc = "loop"

\* one pass of loop()
Fin_Loop ==
  /\ pc = "loop"
  /\ \E roll \in SpawnRolls, h \in HashDraws :
        \E s1 \in {Fin_maybeSpawnDrop(Sim, roll, w, h) : w \in Fin_SpawnWords} :
        \E s2 \in {Fin_maybeSpawnFastDrop(s1, froll, fr2, h) :
                      froll \in FastRolls, fr2 \in ColDraws} :
        \E s3 \in {Fin_stepDrops(s2, h)} :
        \E s4 \in {Fin_stepFastDrops(s3, h)} :
            /\ SetSim(s4)
            /\ serial' = Fin_renderFrame(s4)
            /\ spawn_roll' = roll
  /\ UNCHANGED <<global_rng, cols, pc>>

SpecFin == InitFin /\ [][Fin_Loop]_vars

(***************************************************************************)
(* Claims about tested/basic_colorized.ino.                                *)
(***************************************************************************)
Fin_ColourEscapes == {"ESC[37m", "ESC[32m", "ESC[33m", "ESC[31m"}

\* the tokens of a frame that are cells: neither escapes nor line ends
C9_CellTokens ==
  {k \in DOMAIN serial :
     serial[k] \notin Fin_ColourEscapes \cup {"ESC[H", "ESC[0m", "\r\n"}}

C9_NothingActive ==
  /\ \A i \in DropIdx : drops[i].head_row = -1
  /\ \A i \in FastIdx : ~fasts[i].active

C9_AllSpaces ==
  /\ Cardinality(C9_CellTokens) = TERM_ROWS * TERM_COLS
  /\ \A k \in C9_CellTokens : serial[k] = " "

C9_ColourCount == Cardinality({k \in DOMAIN serial : serial[k] \in Fin_ColourEscapes})

\* C9 as claimed: a frame rendered with no active Drop and no active FastDrop
\* holds a space for every cell and at most one colour escape.
C9_Claim == (Rendered /\ C9_NothingActive) => (C9_AllSpaces /\ C9_ColourCount <= 1)

(***************************************************************************)
(* unnamed/part_001 (matrix_rain_vectorized_fixed.ino): the packed         *)
(* brightness helpers, which read and write a 16-bit window of two bytes.  *)
(***************************************************************************)
\* "packed[byteIdx] | ((uint16_t)packed[byteIdx + 1] << 8)"
P1_Window(bp, drop_idx, byteIdx) ==
  BitOr(bp[drop_idx][byteIdx], U16(bp[drop_idx][byteIdx + 1] * 256))

P1_get_bright_slot(bp, drop_idx, slot) ==
  LET bitpos  == U16(slot * 2)
      byteIdx == U8(bitpos \div 8)
      bitOff  == U8(bitpos % 8)
      val     == P1_Window(bp, drop_idx, byteIdx)
  IN  U8(BitAnd(Shr(val, bitOff), 3))

\* mutant: the mask clears four bits, the slot and the one after it
P1_set_bright_slot_WideMask(bp, drop_idx, slot, val0) ==
  LET val     == BitAnd(val0, 3)
      bitpos  == U16(slot * 2)
      byteIdx == U8(bitpos \div 8)
      bitOff  == U8(bitpos % 8)
      mask    == 65535 - U16(15 * Pow2(bitOff))
      data0   == P1_Window(bp, drop_idx, byteIdx)
      data    == BitOr(BitAnd(data0, mask), U16(val * Pow2(bitOff)))
  IN  [bp EXCEPT ![drop_idx][byteIdx] = U8(data),
                 ![drop_idx][byteIdx + 1] = U8(Shr(data, 8))]

P1_set_bright_slot(bp, drop_idx, slot, val0) ==
  LET val     == BitAnd(val0, 3)
      bitpos  == U16(slot * 2)
      byteIdx == U8(bitpos \div 8)
      bitOff  == U8(bitpos % 8)
      mask    == 65535 - U16(3 * Pow2(bitOff))
      data0   == P1_Window(bp, drop_idx, byteIdx)
      data    == BitOr(BitAnd(data0, mask), U16(val * Pow2(bitOff)))
  IN  [bp EXCEPT ![drop_idx][byteIdx] = U8(data),
                 ![drop_idx][byteIdx + 1] = U8(Shr(data, 8))]

(***************************************************************************)
(* SpecBright: the packed brightness helpers on their own.  The table      *)
(* starts with any bytes of PriorBytes and one of the two set_bright_slot  *)
(* implementations writes one slot.                                        *)
(***************************************************************************)
\* bytes a table row may hold before the write: 00000000, 00011011, 10100101, 11111111
PriorBytes == {0, 27, 165, 255}

\* the values written to a slot
SlotValues == 0 .. 3

InitBright ==
  /\ drop_bright_packed \in [DropIdx -> [ByteIdx -> PriorBytes]]
  /\ drops = << >>
  /\ fasts = << >>
  /\ column_occupied = << >>
  /\ drop_char_idx = << >>
  /\ spawn_roll = 255
  /\ global_rng = << >>
  /\ cols = << >>
  /\ serial = << >>
  /\ pc = "setup"

Bright_Rest ==
  <<drops, fasts, column_occupied, drop_char_idx, spawn_roll, global_rng, cols, serial>>

Call_set_bright_slot ==
  /\ pc = "setup"
  /\ \E i \in DropIdx, slot \in SlotIdx, v \in SlotValues :
        drop_bright_packed' = set_bright_slot(drop_bright_packed, i, slot, v)
  /\ pc' = "set_bright_slot"
  /\ UNCHANGED Bright_Rest

P1_Call_set_bright_slot ==
  /\ pc = "setup"
  /\ \E i \in DropIdx, slot \in SlotIdx, v \in SlotValues :
        drop_bright_packed' = P1_set_bright_slot(drop_bright_packed, i, slot, v)
  /\ pc' = "P1_set_bright_slot"
  /\ UNCHANGED Bright_Rest

NextBright ==
  \/ Call_set_bright_slot
  \/ P1_Call_set_bright_slot

SpecBright == InitBright /\ [][NextBright]_vars

\* C11: for every drop index, slot and value v in 0..3 and every content of
\* the packed table, set_bright_slot followed by get_bright_slot of the same
\* slot returns v, with the helpers of vectorized.ino and with those of part_001.
C11_Thm ==
  \A i \in DropIdx, slot \in SlotIdx, v \in 0 .. 3 :
    /\ get_bright_slot(set_bright_slot(drop_bright_packed, i, slot, v), i, slot) = v
    /\ P1_get_bright_slot(P1_set_bright_slot(drop_bright_packed, i, slot, v), i, slot) = v

\* C11 witness: a slot of a row that was all ones has been overwritten with 0
\* by the 16-bit-window helper: the slot reads 0, its neighbours still read 3.
C11_Witness ==
  /\ pc = "P1_set_bright_slot"
  /\ P1_get_bright_slot(drop_bright_packed, 0, 1) = 0
  /\ P1_get_bright_slot(drop_bright_packed, 0, 0) = 3
  /\ P1_get_bright_slot(drop_bright_packed, 0, 2) = 3
  /\ drop_bright_packed[0][BRIGHT_BYTES_PER_DROP] = 255

(***************************************************************************)
(* Arduino_rain_opt_time.ino, third sketch (lines 121-231): Column records *)
(* and the matrix brightness[TERM_COLS][TERM_ROWS].  cols[c].brightness is *)
(* the row brightness[c] of the matrix.                                    *)
(***************************************************************************)
Mx_RowIdx == 0 .. Col_TERM_ROWS - 1

\* words drawn in stepColumns when the head is past the bottom: "(v & 0x7F) < 48"
\* retires the column, otherwise v gives the new trail and speed
Mx_RespawnWords ==
  {lo + 256 * hi : lo \in Col_RETIRE_BELOW - 1 .. Col_RETIRE_BELOW + 1, hi \in 0 .. MaxSpeedDraw}

\* setupColumns: inactive columns, trail, speed and age drawn, brightness zeroed
Mx_setupColumns(tr, sp, ag) ==
  [c \in ColIdx |->
     LET speed == (sp[c] % 5) + 1 IN
     [head |-> -1, trail |-> (tr[c] % (Col_MAX_TRAIL - 2)) + 3, speed |-> speed,
      age |-> U8(ag[c] % speed), brightness |-> [r \in Mx_RowIdx |-> 0]]]

Mx_maybeSpawnHeads(cs, v) ==
  [c \in ColIdx |->
     IF cs[c].head = -1 /\ BitAnd(v[c], 255) < Col_SPAWN_BELOW
       THEN [cs[c] EXCEPT !.head = 0,
                          !.trail = U8((v[c] % (Col_MAX_TRAIL - 2)) + 3),
                          !.speed = U8((Shr(v[c], 8) % 5) + 1),
                          !.age = 0]
       ELSE cs[c]]

\* mutant: the decrement is not guarded and wraps below 0
Mx_Decay_Unguarded(b) == (b + 255) % 256

\* "if (brightness[c][r] > 0) brightness[c][r]--"
Mx_Decay(b) == IF b > 0 THEN b - 1 ELSE b

\* the head cell set to 3 and the trail pushed above it, for a head at row hpos
Mx_PaintHead(br, hpos, trail) ==
  [r \in Mx_RowIdx |->
     IF r = hpos THEN 3
     ELSE LET t == hpos - r
              b == 3 - (IF t > 3 THEN 3 ELSE t)
          IN  IF t >= 1 /\ t <= trail /\ b > br[r] THEN b ELSE br[r]]

\* the body of the loop of stepColumns for one column; v is the word drawn past the bottom
Mx_StepColumn(col, v) ==
  LET br1  == [r \in Mx_RowIdx |-> Mx_Decay(col.brightness[r])]
      col1 == [col EXCEPT !.brightness = br1]
  IN  IF col.head = -1 THEN col1
      ELSE
        LET age1 == U8(col.age + 1) IN
        IF age1 < col.speed THEN [col1 EXCEPT !.age = age1]
        ELSE IF col.head < Col_TERM_ROWS
          THEN [col1 EXCEPT !.age = 0,
                            !.brightness = Mx_PaintHead(br1, col.head, col.trail),
                            !.head = col.head + 1]
        ELSE IF BitAnd(v, 127) < Col_RETIRE_BELOW
          THEN [col1 EXCEPT !.age = 0, !.head = -1]
        ELSE [col1 EXCEPT !.age = 0, !.head = 0,
                          !.trail = U8((v % (Col_MAX_TRAIL - 2)) + 3),
                          !.speed = U8((Shr(v, 8) % 5) + 1)]

Mx_stepColumns(cs, v) == [c \in ColIdx |-> Mx_StepColumn(cs[c], v[c])]

InitMx ==
  /\ \E tr \in [ColIdx -> 0 .. Col_MAX_TRAIL - 3], sp \in [ColIdx -> 0 .. MaxSpeedDraw],
        ag \in [ColIdx -> 0 .. MaxSpeedDraw] :
        cols = Mx_setupColumns(tr, sp, ag)
  /\ drops = << >>
  /\ fasts = << >>
  /\ column_occupied = << >>
  /\ drop_char_idx = << >>
  /\ drop_bright_packed = << >>
  /\ spawn_roll = 255
  /\ global_rng = << >>
  /\ serial = setup_output
  /\ pc = "maybeSpawnHeads"

Mx_Call_maybeSpawnHeads ==
  /\ pc = "maybeSpawnHeads"
  /\ \E v \in [ColIdx -> Col_SpawnWords] : cols' = Mx_maybeSpawnHeads(cols, v)
  /\ pc' = "stepColumns"
  /\ UNCHANGED Col_Rest

Mx_Call_stepColumns ==
  /\ pc = "stepColumns"
  /\ \E v \in [ColIdx -> Mx_RespawnWords] : cols' = Mx_stepColumns(cols, v)
  /\ pc' = "maybeSpawnHeads"
  /\ UNCHANGED Col_Rest

NextMx ==
  \/ Mx_Call_maybeSpawnHeads
  \/ Mx_Call_stepColumns

SpecMx == InitMx /\ [][NextMx]_vars

\* C12: after setupColumns and any sequence of maybeSpawnHeads and stepColumns
\* calls, every brightness[c][r] is in 0..3.
C12_Thm ==
  \A c \in ColIdx : \A r \in Mx_RowIdx : cols[c].brightness[r] \in 0 .. 3

\* C12 witness: stepColumns has just painted a head cell (3) with a trail cell
\* (2) above it in one column, while another column, retired, is fading: it
\* holds a cell already down to 1 and a cell that stays at 0.
C12_Witness ==
  /\ pc = "maybeSpawnHeads"
  /\ \E c \in ColIdx :
       \E r \in Mx_RowIdx : r >= 1 /\ cols[c].brightness[r] = 3 /\ cols[c].brightness[r - 1] = 2
  /\ \E c \in ColIdx :
       /\ cols[c].head = -1
       /\ \E r \in Mx_RowIdx : cols[c].brightness[r] = 1
       /\ \E r \in Mx_RowIdx : cols[c].brightness[r] = 0

(***************************************************************************)
(* splitmix32 and nextRng (vectorized.ino:65-76) on 32-bit unsigned words. *)
(* A word is the pair <<hi, lo>> of its 16-bit halves; every operation is  *)
(* taken modulo 2^32.                                                      *)
(***************************************************************************)
RECURSIVE BitXor(_, _)
BitXor(a, b) ==
  IF a = 0 THEN b
  ELSE IF b = 0 THEN a
  ELSE ((a + b) % 2) + 2 * BitXor(a \div 2, b \div 2)

W32Add(a, b) ==
  LET lo == a[2] + b[2]
  IN  << (a[1] + b[1] + lo \div 65536) % 65536, lo % 65536 >>

W32Xor(a, b) == << BitXor(a[1], b[1]), BitXor(a[2], b[2]) >>

\* x >> n for 0 < n <= 16
W32Shr(a, n) ==
  << a[1] \div Pow2(n), ((a[1] % Pow2(n)) * Pow2(16 - n) + a[2] \div Pow2(n)) % 65536 >>

\* the low 16 bits of the product of two 16-bit values
MulLow16(a, b) == (a * (b % 256) + ((a * (b \div 256)) % 256) * 256) % 65536

\* the low 32 bits of the product of two words
W32Mul(a, b) ==
  LET t0  == a[2] * (b[2] % 256)
      t1  == a[2] * (b[2] \div 256)
      mid == t0 + (t1 % 256) * 256
      ph  == mid \div 65536 + t1 \div 256
  IN  << (ph + MulLow16(a[1], b[2]) + MulLow16(a[2], b[1])) % 65536, mid % 65536 >>

\* the element of a one-element set
Only(S) == CHOOSE v \in S : TRUE

\* the number of nextRng calls made so far by all copies together
RngCallsSoFar == Len(serial[0]) + Len(serial[1])

\* mutant: the mixer keeps a static call counter and adds it to its input
splitmix32_Static(x) ==
  Only({ W32Xor(x3, W32Shr(x3, 16)) :
           x3 \in { W32Mul(W32Xor(x2, W32Shr(x2, 13)), << 49842, 44597 >>) :
             x2 \in { W32Mul(W32Xor(x1, W32Shr(x1, 16)), << 34283, 51819 >>) :
               x1 \in { W32Add(W32Add(x, << 0, RngCallsSoFar >>), << 40503, 31161 >>) } } } })

\* x += 0x9e3779b9; x = (x ^ (x >> 16)) * 0x85ebca6b; x = (x ^ (x >> 13)) * 0xc2b2ae35;
\* x = x ^ (x >> 16)
\* (each line's value is computed once and bound: x1, x2, x3)
splitmix32(x) ==
  Only({ W32Xor(x3, W32Shr(x3, 16)) :
           x3 \in { W32Mul(W32Xor(x2, W32Shr(x2, 13)), << 49842, 44597 >>) :
             x2 \in { W32Mul(W32Xor(x1, W32Shr(x1, 16)), << 34283, 51819 >>) :
               x1 \in { W32Add(x, << 40503, 31161 >>) } } } })

\* "st = splitmix32(st); return st;": the new state and the value returned
nextRng(st) == LET st1 == splitmix32(st) IN [st |-> st1, ret |-> st1]

(***************************************************************************)
(* SpecRng: copies of the generator, one per Drop slot (Drop.rng), started *)
(* from one seed and called in any interleaving; serial[c] is the sequence *)
(* of words nextRng has returned to copy c.                                *)
(***************************************************************************)
\* calls of nextRng per copy
MaxRngCalls == 5

\* seeds: 0, 1, 0xA5A5A5A5 (global_rng), 0x12345678, 0xFFFFFFFF
RngSeeds == { << 0, 0 >>, << 0, 1 >>, << 42405, 42405 >>, << 4660, 22136 >>, << 65535, 65535 >> }

InitRng ==
  /\ \E seed \in RngSeeds : drops = [c \in DropIdx |-> [rng |-> seed]]
  /\ serial = [c \in DropIdx |-> << >>]
  /\ fasts = << >>
  /\ column_occupied = << >>
  /\ drop_char_idx = << >>
  /\ drop_bright_packed = << >>
  /\ spawn_roll = 255
  /\ global_rng = << >>
  /\ cols = << >>
  /\ pc = "nextRng"

Call_nextRng ==
  /\ \E c \in DropIdx :
        /\ Len(serial[c]) < MaxRngCalls
        /\ LET r == nextRng(drops[c].rng)
           IN  /\ drops' = [drops EXCEPT ![c].rng = r.st]
               /\ serial' = [serial EXCEPT ![c] = Append(@, r.ret)]
  /\ UNCHANGED <<fasts, column_occupied, drop_char_idx, drop_bright_packed, spawn_roll,
                 global_rng, cols, pc>>

SpecRng == InitRng /\ [][Call_nextRng]_vars

IsWord32(w) == w[1] \in 0 .. 65535 /\ w[2] \in 0 .. 65535

\* two copies agree on every call both have made, and are in the same state
\* whenever they have made the same number of calls
C13_SameSequences ==
  \A a, b \in DropIdx :
    /\ \A k \in 1 .. Len(serial[a]) : k <= Len(serial[b]) => serial[a][k] = serial[b][k]
    /\ Len(serial[a]) = Len(serial[b]) => drops[a].rng = drops[b].rng

\* a call returns splitmix32 of the state it was made on, which is also the new
\* state, whatever the other copies have done; all values are 32-bit words
C13_OutputFromInputOnly ==
  \A c \in DropIdx :
    serial'[c] # serial[c] =>
      /\ serial'[c] = Append(serial[c], splitmix32(drops[c].rng))
      /\ drops'[c].rng = splitmix32(drops[c].rng)
      /\ IsWord32(drops'[c].rng)

Runs == 0 .. 1

\* loop() calls per run
MaxLoops == 14

\* millis() at the start of setup()
MillisAtSetup == {0, 137}

\* x % m of a word, for 0 < m <= 256
W32Mod(w, m) == ((w[1] % m) * (65536 % m) + (w[2] % m)) % m

\* an integer with the residues maybeSpawnDrop takes from the word:
\* w % (MAX_TRAIL - 2) and (w >> 8) % 5
AsSpawnDraw(w) ==
  LET m == MAX_TRAIL - 2
      a == W32Mod(W32Shr(w, 8), 5)
      b == W32Mod(w, m)
  IN  ((b + (m - 1) * 256 * a) % m) + 256 * a

GlyphWord == CHOOSE h \in HashDraws : TRUE

\* mutant: setup() seeds global_rng with the timer reading
PowerUp_TimerSeed(start) == [s |-> setupState, rng |-> << 0, start >>]

\* the tables and global_rng when setup() returns: "uint32_t global_rng = 0xA5A5A5A5u",
\* and setup() uses its millis() reading only to wait for Serial
PowerUp(start) == [s |-> setupState, rng |-> << 42405, 42405 >>]

\* maybeSpawnDrop with the words it takes from global_rng (lines 171, 180, 190)
SeedSpawnDrop(s, w) ==
  LET w1 == splitmix32(w)
      w2 == splitmix32(w1)
      w3 == splitmix32(w2)
      roll == w1[2] % 256
      r2 == W32Mod(w2, TERM_COLS)
      h == W32Mod(splitmix32(splitmix32(w3)), Len(CHARSET))
  IN  IF roll > SPAWN_CHANCE THEN [s |-> s, rng |-> w1]
      ELSE IF \A i \in DropIdx : s.drops[i].head # -1 THEN [s |-> s, rng |-> w1]
      ELSE IF \A c \in ColIdx : s.column_occupied[c] THEN [s |-> s, rng |-> w2]
      ELSE [s |-> maybeSpawnDrop(s, roll, r2, AsSpawnDraw(w3), h), rng |-> w3]

\* maybeSpawnFastDrop with the words it takes from global_rng (lines 217, 220, 240)
SeedSpawnFastDrop(s, w) ==
  LET w1 == splitmix32(w)
      w2 == splitmix32(w1)
      w3 == splitmix32(w2)
      roll == w1[2] % 256
      r2 == W32Mod(w2, TERM_COLS)
      h == W32Mod(splitmix32(w3), Len(CHARSET))
  IN  IF roll > SPAWN_FAST_CHANCE THEN [s |-> s, rng |-> w1]
      ELSE IF \A c \in ColIdx : ~s.column_occupied[c] THEN [s |-> s, rng |-> w2]
      ELSE IF \A i \in FastIdx : s.fasts[i].active THEN [s |-> s, rng |-> w2]
      ELSE [s |-> maybeSpawnFastDrop(s, roll, r2, h), rng |-> w3]

\* the state-changing calls of one loop()
SeedLoop(s, w) ==
  Only({ [s |-> stepFastDrops(stepDrops(b.s, GlyphWord), GlyphWord), rng |-> b.rng] :
           b \in { SeedSpawnFastDrop(a.s, a.rng) : a \in {SeedSpawnDrop(s, w)} } })

RunSim(r) ==
  [ drops |-> drops[r], fasts |-> fasts[r], column_occupied |-> column_occupied[r],
    drop_char_idx |-> drop_char_idx[r], drop_bright_packed |-> drop_bright_packed[r] ]

InitSeed ==
  \E start \in [Runs -> MillisAtSetup] :
    /\ drops = [r \in Runs |-> PowerUp(start[r]).s.drops]
    /\ fasts = [r \in Runs |-> PowerUp(start[r]).s.fasts]
    /\ column_occupied = [r \in Runs |-> PowerUp(start[r]).s.column_occupied]
    /\ drop_char_idx = [r \in Runs |-> PowerUp(start[r]).s.drop_char_idx]
    /\ drop_bright_packed = [r \in Runs |-> PowerUp(start[r]).s.drop_bright_packed]
    /\ global_rng = [r \in Runs |-> PowerUp(start[r]).rng]
    /\ pc = [r \in Runs |-> [start |-> start[r], loops |-> 0]]
    /\ spawn_roll = 255
    /\ cols = << >>
    /\ serial = setup_output

Run_loop ==
  /\ \E r \in Runs :
        /\ pc[r].loops < MaxLoops
        /\ \E n \in {SeedLoop(RunSim(r), global_rng[r])} :
               /\ drops' = [drops EXCEPT ![r] = n.s.drops]
               /\ fasts' = [fasts EXCEPT ![r] = n.s.fasts]
               /\ column_occupied' = [column_occupied EXCEPT ![r] = n.s.column_occupied]
               /\ drop_char_idx' = [drop_char_idx EXCEPT ![r] = n.s.drop_char_idx]
               /\ drop_bright_packed' =
                    [drop_bright_packed EXCEPT ![r] = n.s.drop_bright_packed]
               /\ global_rng' = [global_rng EXCEPT ![r] = n.rng]
        /\ pc' = [pc EXCEPT ![r].loops = @ + 1]
  /\ UNCHANGED <<spawn_roll, cols, serial>>

SpecSeed == InitSeed /\ [][Run_loop]_vars

\* two runs that have made the same number of loop() calls
SameLoops(a, b) == pc[a].loops = pc[b].loops

\* the Drop and FastDrop tables of two runs are alike
SameDrops(a, b) == drops[a] = drops[b] /\ fasts[a] = fasts[b]

\* Every pair of power-ups, whatever the timer read, passes through the same
\* Drop/FastDrop tables and the same generator words.
C14_Deterministic ==
  \A a, b \in Runs : SameLoops(a, b) => SameDrops(a, b) /\ global_rng[a] = global_rng[b]

\* C14: the spawn generator is seeded from a hardware timer, so two runs started
\* with different timer readings differ in their Drop/FastDrop states: here, by
\* the time both have made MaxLoops calls of loop().
C14_Claim ==
  \A a, b \in Runs :
    (pc[a].start # pc[b].start /\ pc[a].loops = MaxLoops /\ pc[b].loops = MaxLoops)
      => ~SameDrops(a, b)

\* C14 failing state: two power-ups with different timer readings, each after
\* MaxLoops calls of loop() and with a Drop on the screen, in the same state.
C14_Witness ==
  /\ pc[0].start # pc[1].start
  /\ pc[0].loops = MaxLoops /\ pc[1].loops = MaxLoops
  /\ \E i \in DropIdx : drops[0][i].head > 0 /\ drops[1][i] = drops[0][i]
  /\ global_rng[0] = global_rng[1]

(***************************************************************************)
(* C15: the chance test of the spawn functions (SpecLoop).                 *)
(***************************************************************************)
\* a Drop slot that was free before this loop() holds a Drop after it
C15_DropSpawned == \E i \in DropIdx : drops[i].head = -1 /\ drops'[i].head # -1

\* the bytes for which the spawn function changes the tables of the present state
C15_DropBytes ==
  {roll \in 0 .. 255 :
     \E r2 \in ColDraws, g \in SpawnDraws, h \in HashDraws :
        maybeSpawnDrop(Sim, roll, r2, g, h) # Sim}

C15_FastBytes ==
  {roll \in 0 .. 255 :
     \E r2 \in ColDraws, h \in HashDraws : maybeSpawnFastDrop(Sim, roll, r2, h) # Sim}

\* C15: maybeSpawnDrop attempts a spawn exactly when the byte it drew is strictly
\* below SPAWN_CHANCE, that is for SPAWN_CHANCE of the 256 byte values, and
\* maybeSpawnFastDrop when its byte is strictly below SPAWN_FAST_CHANCE.
C15_Claim ==
  /\ [][C15_DropSpawned => spawn_roll' < SPAWN_CHANCE]_vars
  /\ [](/\ C15_DropBytes \subseteq 0 .. SPAWN_CHANCE - 1
        /\ C15_FastBytes \subseteq 0 .. SPAWN_FAST_CHANCE - 1)

\* C15 failing state: the first loop() drew the byte SPAWN_CHANCE itself and a
\* Drop was spawned; in this state SPAWN_CHANCE + 1 byte values spawn a second
\* Drop and SPAWN_FAST_CHANCE + 1 byte values a FastDrop.
C15_Witness ==
  /\ spawn_roll = SPAWN_CHANCE
  /\ Cardinality(ActiveDrops) = 1
  /\ C15_DropBytes = 0 .. SPAWN_CHANCE
  /\ C15_FastBytes = 0 .. SPAWN_FAST_CHANCE

(***************************************************************************)
(* C16, C17: the spawn functions with full tables (SpecV).                 *)
(***************************************************************************)
SimVars == <<drops, fasts, column_occupied, drop_char_idx, drop_bright_packed>>

AllDropsActive == \A i \in DropIdx : drops[i].head # -1
AllColumnsOccupied == \A c \in ColIdx : column_occupied[c]
AllFastsActive == \A i \in FastIdx : fasts[i].active

\* maybeSpawnDrop with no free slot or no free column changes nothing
C16_DropDropped ==
  (pc = "maybeSpawnDrop" /\ (AllDropsActive \/ AllColumnsOccupied)) => UNCHANGED SimVars

\* maybeSpawnFastDrop with no free FastDrop slot changes nothing
C16_FastDropped ==
  (pc = "maybeSpawnFastDrop" /\ AllFastsActive) => UNCHANGED SimVars

C17_Activated(i) == ~fasts[i].active /\ fasts'[i].active

C17_OnlyOverADrop ==
  pc = "maybeSpawnFastDrop" =>
    /\ \A i \in FastIdx :
          C17_Activated(i) =>
            /\ column_occupied[fasts'[i].col]
            /\ \E k \in ActiveDrops : drops[k].col = fasts'[i].col
            /\ fasts'[i].row = 0
    /\ (\A c \in ColIdx : ~column_occupied[c]) => fasts' = fasts

\* C17: maybeSpawnFastDrop activates a FastDrop only in a column whose
\* column_occupied flag is set at that moment, where an active Drop exists, and
\* with row 0; when no column is occupied it leaves fasts unchanged.
C17_Thm == [][C17_OnlyOverADrop]_vars

\* C17 witness: maybeSpawnFastDrop has just put a FastDrop at row 0 of a column
\* that holds an active Drop, while the other column is free.
C17_Witness ==
  /\ pc = "stepDrops"
  /\ \E i \in FastIdx :
        /\ fasts[i].active /\ fasts[i].row = 0 /\ fasts[i].age = 0
        /\ column_occupied[fasts[i].col]
        /\ \E k \in ActiveDrops : drops[k].col = fasts[i].col /\ drops[k].head > 0
  /\ \E c \in ColIdx : ~column_occupied[c]

(***************************************************************************)
(* C18, C19: the trail, speed and head of an active Drop (SpecV).          *)
(***************************************************************************)
\* every word maybeSpawnDrop can draw gives a trail and a speed in range
\* (the words cover every residue of both moduli)
C18_DrawsInRange ==
  \A g \in 0 .. 2559 :
    /\ U8(SpawnTrail(g)) \in 3 .. MAX_TRAIL
    /\ U8(SpawnSpeed(g)) \in 1 .. 5

C18_InRange ==
  \A i \in ActiveDrops :
    /\ drops[i].trail \in 3 .. MAX_TRAIL
    /\ drops[i].speed \in 1 .. 5

\* a Drop that is active before and after a step keeps its trail and speed
C18_Kept ==
  \A i \in DropIdx :
    (Active(drops[i]) /\ Active(drops'[i])) =>
      /\ drops'[i].trail = drops[i].trail
      /\ drops'[i].speed = drops[i].speed

\* C18: every active Drop has 3 <= trail <= MAX_TRAIL and 1 <= speed <= 5, and
\* neither field changes between the Drop's spawn and its deactivation.
C18_Thm == [](C18_DrawsInRange /\ C18_InRange) /\ [][C18_Kept]_vars

\* C18 witness: a Drop with the longest trail and a speed above 1 that has moved
\* down from its spawn row, next to a Drop with the shortest trail.
C18_Witness ==
  \E i, k \in ActiveDrops :
    /\ drops[i].trail = MAX_TRAIL /\ drops[i].speed > 1 /\ drops[i].head > 1
    /\ drops[k].trail = 3 /\ drops[k].speed = 1

\* the head of every active Drop is in the window the trail can be seen in,
\* and in the range of int16_t
C19_HeadInRange ==
  \A i \in ActiveDrops :
    /\ 0 <= drops[i].head /\ drops[i].head <= TERM_ROWS + drops[i].trail - 2
    /\ -(drops[i].trail - 1) <= drops[i].head /\ drops[i].head < TERM_ROWS + drops[i].trail
    /\ drops[i].head \in -32768 .. 32767

\* C19: at every tick boundary (between two calls of loop()) the head of every
\* active Drop satisfies 0 <= head <= TERM_ROWS + trail - 2, hence the window
\* -(trail-1) <= head < TERM_ROWS + trail; it stays an int16_t value and is never
\* the sentinel -1.
C19_Thm == pc = "maybeSpawnDrop" => C19_HeadInRange

\* C19 witness: at a tick boundary a Drop stands at the last head position it
\* can have, TERM_ROWS + trail - 2, with only the last cell of its trail on screen.
C19_Witness ==
  /\ pc = "maybeSpawnDrop"
  /\ \E i \in ActiveDrops :
        /\ drops[i].head = TERM_ROWS + drops[i].trail - 2
        /\ drops[i].trail = MAX_TRAIL

(***************************************************************************)
(* SpecTall: vectorized.ino on a terminal of Tall_TERM_ROWS rows with      *)
(* Tall_MAX_FAST FastDrop slots, sizes at which two FastDrops can be on    *)
(* the screen at once.  The functions that read TERM_ROWS or MAX_FAST are  *)
(* restated with these sizes; the others are those of SpecV.  Drops spawn  *)
(* with the shortest trail and speed 1.                                    *)
(***************************************************************************)
Tall_TERM_ROWS == 3
Tall_MAX_FAST == 2
Tall_FastIdx == 0 .. Tall_MAX_FAST - 1
Tall_SpawnDraws == {0}

Tall_setupState ==
  [setupState EXCEPT
     !.fasts = [i \in Tall_FastIdx |->
                  [active |-> FALSE, col |-> 0, row |-> 0, speed |-> 0, age |-> 0, rng |-> 0]]]

\* mutant: the FastDrop is given speed 2
Tall_maybeSpawnFastDrop_Slow(s, roll, r2, h) ==
  IF roll > SPAWN_FAST_CHANCE THEN s
  ELSE
    LET start_col     == U8(r2 % TERM_COLS)
        col_with_drop == ScanColumns(s.column_occupied, start_col, 0, TRUE)
    IN  IF col_with_drop = -1 THEN s
        ELSE
          LET fidx == FirstFrom([i \in Tall_FastIdx |-> ~s.fasts[i].active], 0, Tall_MAX_FAST)
          IN  IF fidx = -1 THEN s
              ELSE [s EXCEPT !.fasts[fidx] =
                      [active |-> TRUE, col |-> col_with_drop, row |-> 0,
                       speed |-> 2, age |-> 0, rng |-> h]]

Tall_maybeSpawnFastDrop(s, roll, r2, h) ==
  IF roll > SPAWN_FAST_CHANCE THEN s
  ELSE
    LET start_col     == U8(r2 % TERM_COLS)
        col_with_drop == ScanColumns(s.column_occupied, start_col, 0, TRUE)
    IN  IF col_with_drop = -1 THEN s
        ELSE
          LET fidx == FirstFrom([i \in Tall_FastIdx |-> ~s.fasts[i].active], 0, Tall_MAX_FAST)
          IN  IF fidx = -1 THEN s
              ELSE [s EXCEPT !.fasts[fidx] =
                      [active |-> TRUE, col |-> col_with_drop, row |-> 0,
                       speed |-> 1, age |-> 0, rng |-> h]]

\* the body of the loop of stepDrops for drop i
Tall_StepDrop(s, i, h) ==
  LET d == s.drops[i] IN
  IF d.head = -1 THEN s
  ELSE
    LET age1 == U8(d.age + 1)
        adv  == age1 >= d.speed
        d1   == IF adv
                  THEN [d EXCEPT !.age = 0, !.head = d.head + 1,
                                 !.boost = IF d.boost # 0 THEN d.boost - 1 ELSE 0]
                  ELSE [d EXCEPT !.age = age1]
        chars1 == IF adv
                    THEN [k \in SlotIdx |->
                            IF k = 0 THEN pickIndex(h)
                            ELSE IF k < d.trail THEN s.drop_char_idx[i][k - 1]
                            ELSE s.drop_char_idx[i][k]]
                    ELSE s.drop_char_idx[i]
        tmp  == [k \in SlotIdx |->
                   IF k < d.trail THEN get_bright_slot(s.drop_bright_packed, i, k) ELSE 0]
        bp1  == IF adv
                  THEN SetBrightSlots(s.drop_bright_packed, i, 0, d.trail,
                                      DecayBright(tmp, d.trail, d.boost))
                  ELSE s.drop_bright_packed
        s1   == [s EXCEPT
                   !.drops[i] = d1,
                   !.drop_char_idx[i] = chars1,
                   !.drop_bright_packed = bp1]
    IN  IF d1.head - (d1.trail - 1) >= Tall_TERM_ROWS THEN DeactivateDrop(s1, i) ELSE s1

RECURSIVE Tall_StepDropsFrom(_, _, _)
Tall_StepDropsFrom(s, i, h) ==
  IF i >= MAX_DROPS THEN s ELSE Tall_StepDropsFrom(Tall_StepDrop(s, i, h), i + 1, h)

Tall_stepDrops(s, h) == Tall_StepDropsFrom(s, 0, h)

\* "if (f.row >= bottom)" with bottom = d.head - (d.trail - 1)
Tall_FastStops(d, row) == row >= d.head - (d.trail - 1)

\* the body of the loop of stepFastDrops for fast drop i
Tall_StepFast(s, i, h) ==
  LET f == s.fasts[i] IN
  IF ~f.active THEN s
  ELSE
    LET age1 == U8(f.age + 1) IN
    IF age1 < f.speed THEN [s EXCEPT !.fasts[i].age = age1]
    ELSE
      LET row1 == f.row + 1
          f1   == [f EXCEPT !.age = 0, !.row = row1]
      IN  IF row1 >= Tall_TERM_ROWS
            THEN [s EXCEPT !.fasts[i] = [f1 EXCEPT !.active = FALSE]]
          ELSE
            LET di == findDropIndexInColumn(s.drops, f.col) IN
            IF di = -1 THEN [s EXCEPT !.fasts[i] = f1]
            ELSE
              LET d      == s.drops[di]
                  bottom == d.head - (d.trail - 1)
                  dist   == d.head - row1
                  pass   == row1 >= bottom /\ row1 <= d.head
                              /\ dist >= 0 /\ dist < d.trail
                  cur    == get_bright_slot(s.drop_bright_packed, di, dist)
                  nb     == IF cur < 3 THEN cur + 1 ELSE 3
                  chars1 == IF pass
                              THEN [s.drop_char_idx EXCEPT ![di][dist] = pickIndex(h)]
                              ELSE s.drop_char_idx
                  bp1    == IF pass
                              THEN set_bright_slot(s.drop_bright_packed, di, dist, nb)
                              ELSE s.drop_bright_packed
              IN  IF Tall_FastStops(d, row1)
                    THEN [s EXCEPT
                            !.drops[di].boost = IF d.boost < 6 THEN 6 ELSE d.boost,
                            !.drop_char_idx = chars1,
                            !.drop_bright_packed = set_bright_slot(bp1, di, 0, 3),
                            !.fasts[i] = [f1 EXCEPT !.active = FALSE]]
                    ELSE [s EXCEPT
                            !.drop_char_idx = chars1,
                            !.drop_bright_packed = bp1,
                            !.fasts[i] = f1]

RECURSIVE Tall_StepFastsFrom(_, _, _)
Tall_StepFastsFrom(s, i, h) ==
  IF i >= Tall_MAX_FAST THEN s ELSE Tall_StepFastsFrom(Tall_StepFast(s, i, h), i + 1, h)

Tall_stepFastDrops(s, h) == Tall_StepFastsFrom(s, 0, h)

InitTall ==
  /\ SimIs(Tall_setupState)
  /\ spawn_roll = 255
  /\ global_rng = << >>
  /\ cols = << >>
  /\ serial = setup_output
  /\ pc = "maybeSpawnDrop"

Tall_Rest == <<spawn_roll, global_rng, cols, serial>>

Tall_Call_maybeSpawnDrop ==
  /\ pc = "maybeSpawnDrop"
  /\ \E roll \in SpawnRolls, r2 \in ColDraws, g \in Tall_SpawnDraws, h \in HashDraws :
        SetSim(maybeSpawnDrop(Sim, roll, r2, g, h))
  /\ pc' = "maybeSpawnFastDrop"
  /\ UNCHANGED Tall_Rest

Tall_Call_maybeSpawnFastDrop ==
  /\ pc = "maybeSpawnFastDrop"
  /\ \E roll \in FastRolls, r2 \in ColDraws, h \in HashDraws :
        SetSim(Tall_maybeSpawnFastDrop(Sim, roll, r2, h))
  /\ pc' = "stepDrops"
  /\ UNCHANGED Tall_Rest

Tall_Call_stepDrops ==
  /\ pc = "stepDrops"
  /\ \E h \in HashDraws : SetSim(Tall_stepDrops(Sim, h))
  /\ pc' = "stepFastDrops"
  /\ UNCHANGED Tall_Rest

Tall_Call_stepFastDrops ==
  /\ pc = "stepFastDrops"
  /\ \E h \in HashDraws : SetSim(Tall_stepFastDrops(Sim, h))
  /\ pc' = "maybeSpawnDrop"
  /\ UNCHANGED Tall_Rest

NextTall ==
  \/ Tall_Call_maybeSpawnDrop
  \/ Tall_Call_maybeSpawnFastDrop
  \/ Tall_Call_stepDrops
  \/ Tall_Call_stepFastDrops

SpecTall == InitTall /\ [][NextTall]_vars

\* FastDrop i was stopped by a Drop in this stepFastDrops call: it went inactive
\* on a row of the screen, which the code does only in the block that boosts the
\* Drop of its column and brightens its slots
C20_Interacts(i) ==
  /\ pc = "stepFastDrops"
  /\ fasts[i].active /\ ~fasts'[i].active
  /\ fasts'[i].row < Tall_TERM_ROWS

\* C20: no two FastDrops modify the Drop of the same column in the same
\* stepFastDrops call.
C20_Claim ==
  [][\A i, j \in Tall_FastIdx :
        (i # j /\ C20_Interacts(i) /\ C20_Interacts(j)) => fasts[i].col # fasts[j].col]_vars

\* C20 failing state: before stepFastDrops, two FastDrops stand at rows 0 and 1
\* of one column, above a Drop that has just been spawned there (head 0 or 1).
C20_Witness ==
  /\ pc = "stepFastDrops"
  /\ \E i, j \in Tall_FastIdx :
        /\ fasts[i].active /\ fasts[j].active
        /\ fasts[i].col = fasts[j].col
        /\ fasts[i].row = 0 /\ fasts[j].row = 1
        /\ \E k \in ActiveDrops : drops[k].col = fasts[i].col /\ drops[k].head <= 1

(***************************************************************************)
(* C21: age, speed and head advance of a Drop (SpecV).                     *)
(***************************************************************************)
\* the age counter of Drop i reaches its speed in this stepDrops call
C21_AgeReachesSpeed(i) == U8(drops[i].age + 1) >= drops[i].speed

C21_Step ==
  \A i \in DropIdx :
    Active(drops[i]) =>
      IF pc = "stepDrops"
        THEN IF C21_AgeReachesSpeed(i)
               THEN /\ drops[i].age + 1 = drops[i].speed
                    /\ \/ drops'[i].head = drops[i].head + 1 /\ drops'[i].age = 0
                       \/ drops'[i].head = -1
               ELSE drops'[i].head = drops[i].head /\ drops'[i].age = drops[i].age + 1
        ELSE drops'[i].head = drops[i].head /\ drops'[i].age = drops[i].age

C21_AgeBelowSpeed ==
  \A i \in ActiveDrops : 0 <= drops[i].age /\ drops[i].age < drops[i].speed

\* C21: the head of an active Drop advances by one row in a tick exactly when its
\* age counter reaches its speed in that tick, and age is then 0; otherwise head
\* stays and age grows by one.  Hence 0 <= age < speed between ticks, and an
\* advance happens at age = speed - 1 exactly: speed ticks after the previous one.
C21_Thm == [](C21_AgeBelowSpeed) /\ [][C21_Step]_vars

\* C21 witness: stepDrops has just advanced a Drop of speed 2 to row 2 (age 0),
\* next to a Drop of speed 2 that waits with age 1.
C21_Witness ==
  /\ pc = "stepFastDrops"
  /\ \E i, k \in ActiveDrops :
        /\ drops[i].speed = 2 /\ drops[i].age = 0 /\ drops[i].head = 2
        /\ drops[k].speed = 2 /\ drops[k].age = 1 /\ drops[k].head = 1

(***************************************************************************)
(* C22: the fall of a FastDrop (SpecTall).                                 *)
(***************************************************************************)
C22_Step ==
  \A i \in Tall_FastIdx :
    IF fasts[i].active
      THEN IF pc = "stepFastDrops"
             THEN ~fasts'[i].active \/ fasts'[i].row = fasts[i].row + 1
             ELSE fasts'[i] = fasts[i]
      ELSE fasts'[i].active => (pc = "maybeSpawnFastDrop" /\ fasts'[i].row = 0)

\* an active FastDrop is on the screen; its row is the number of stepFastDrops
\* calls it has been through
C22_OnScreen ==
  \A i \in Tall_FastIdx :
    fasts[i].active =>
      /\ fasts[i].row \in 0 .. Tall_TERM_ROWS - 1
      /\ pc \in {"maybeSpawnDrop", "maybeSpawnFastDrop"} =>
           fasts[i].row \in 1 .. Tall_TERM_ROWS - 1

\* C22: a FastDrop is spawned at row 0, its row grows by exactly one in every
\* tick in which it stays active, and an active FastDrop has a row in
\* 0..TERM_ROWS-1; its row counts its ticks, so it is inactive at the latest
\* TERM_ROWS ticks after its spawn.
C22_Thm == [](C22_OnScreen) /\ [][C22_Step]_vars

\* C22 witness: between two ticks a FastDrop stands on the last row of the
\* screen, TERM_ROWS - 1 ticks after its spawn; the next tick ends it.
C22_Witness ==
  /\ pc = "maybeSpawnDrop"
  /\ \E i \in Tall_FastIdx : fasts[i].active /\ fasts[i].row = Tall_TERM_ROWS - 1

(***************************************************************************)
(* C23: the stored brightness after a head advance (SpecV).                *)
(***************************************************************************)
\* stepDrops advances the head of Drop i in this step and the Drop stays active
C23_Advanced(i) ==
  /\ pc = "stepDrops"
  /\ Active(drops[i]) /\ Active(drops'[i])
  /\ drops'[i].head = drops[i].head + 1

\* after the advance: slot 0 holds 3 and no slot of the trail is below 1
C23_HeadAndFloor ==
  \A i \in DropIdx :
    C23_Advanced(i) =>
      /\ get_bright_slot(drop_bright_packed', i, 0) = 3
      /\ \A k \in 1 .. drops[i].trail - 1 : get_bright_slot(drop_bright_packed', i, k) >= 1

\* after the advance: the stored brightness does not grow from slot 0 to slot trail-1
C23_NonIncreasing ==
  \A i \in DropIdx :
    C23_Advanced(i) =>
      \A k \in 0 .. drops[i].trail - 2 :
        get_bright_slot(drop_bright_packed', i, k)
          >= get_bright_slot(drop_bright_packed', i, k + 1)

\* C23: immediately after any head advance of a Drop in stepDrops, slot 0 is 3,
\* every slot 1..trail-1 is at least 1, and the stored brightness is
\* non-increasing from slot 0 to slot trail-1.
C23_Claim == [][C23_HeadAndFloor /\ C23_NonIncreasing]_vars

\* C23 failing state: right after a head advance (age 0) a Drop of trail 4 holds
\* a slot that is brighter than the slot before it.
C23_Witness ==
  /\ pc = "stepFastDrops"
  /\ \E i \in ActiveDrops :
        /\ drops[i].age = 0 /\ drops[i].head > 0 /\ drops[i].trail = MAX_TRAIL
        /\ get_bright_slot(drop_bright_packed, i, 0) = 3
        /\ \E k \in 1 .. drops[i].trail - 2 :
              get_bright_slot(drop_bright_packed, i, k)
                < get_bright_slot(drop_bright_packed, i, k + 1)

(***************************************************************************)
(* unnamed/part_001: maybeSpawnDrop and stepDrops.  stepDrops declares     *)
(* new_bright[MAX_TRAIL] inside the advance block, never writes it and     *)
(* then stores its elements with set_bright_slot: the elements are read    *)
(* uninitialised, so each call may see any bytes there.                    *)
(***************************************************************************)
\* set_bright_slot(drop_idx, k, vals[k]) for k = from .. to - 1 with the helper of part_001
RECURSIVE P1_SetBrightSlots(_, _, _, _, _)
P1_SetBrightSlots(bp, drop_idx, from, to, vals) ==
  IF from >= to THEN bp
  ELSE P1_SetBrightSlots(P1_set_bright_slot(bp, drop_idx, from, vals[from]),
                         drop_idx, from + 1, to, vals)

P1_maybeSpawnDrop(s, roll, r2, g, h) ==
  IF roll > SPAWN_CHANCE THEN s
  ELSE
    LET idx == FirstFrom([i \in DropIdx |-> s.drops[i].head = -1], 0, MAX_DROPS)
    IN  IF idx = -1 THEN s
        ELSE
          LET start_col == U8(r2 % TERM_COLS)
              free_col  == ScanColumns(s.column_occupied, start_col, 0, FALSE)
          IN  IF free_col = -1 THEN s
              ELSE
                LET trail == U8(SpawnTrail(g))
                    d == [col |-> free_col, head |-> 0, trail |-> trail,
                          speed |-> U8(SpawnSpeed(g)), age |-> 0, boost |-> 0]
                    vals == [k \in SlotIdx |-> IF k < trail THEN SpawnBright(k) ELSE 0]
                IN  [s EXCEPT
                       !.drops[idx] = d,
                       !.drop_char_idx[idx] =
                          [k \in SlotIdx |-> IF k < trail THEN pickIndex(h) ELSE 0],
                       !.drop_bright_packed =
                          P1_SetBrightSlots(@, idx, 0, MAX_TRAIL, vals),
                       !.column_occupied[free_col] = TRUE]

\* "3u - (uint8_t)((3.0 * k) / d.trail)", and 3 for the head slot
P1_LinearDecay(k, trail) == IF k = 0 THEN 3 ELSE U8(3 - U8((3 * k) \div trail))

\* the deactivation block of part_001 also clears the glyph indices
P1_DeactivateDrop(s, i) ==
  [s EXCEPT
     !.column_occupied[s.drops[i].col] = FALSE,
     !.drops[i].head = -1,
     !.drops[i].boost = 0,
     !.drop_bright_packed[i] = [b \in ByteIdx |-> 0],
     !.drop_char_idx[i] = [k \in SlotIdx |-> 0]]

\* the body of the loop of stepDrops for drop i; new_bright is what the
\* uninitialised array holds during this call
P1_StepDrop(s, i, h, new_bright) ==
  LET d == s.drops[i] IN
  IF d.head = -1 THEN s
  ELSE
    LET age1 == U8(d.age + 1)
        adv  == age1 >= d.speed
        boost1 == IF d.boost # 0 THEN d.boost - 1 ELSE 0
        d1   == IF adv
                  THEN [d EXCEPT !.age = 0, !.head = d.head + 1, !.boost = boost1]
                  ELSE [d EXCEPT !.age = age1, !.boost = boost1]
        chars1 == IF adv
                    THEN [k \in SlotIdx |->
                            IF k = 0 THEN pickIndex(h)
                            ELSE IF k < d.trail THEN s.drop_char_idx[i][k - 1]
                            ELSE s.drop_char_idx[i][k]]
                    ELSE s.drop_char_idx[i]
        linear == P1_SetBrightSlots(s.drop_bright_packed, i, 0, d.trail,
                                    [k \in SlotIdx |-> P1_LinearDecay(k, d.trail)])
        bp1  == IF adv
                  THEN P1_SetBrightSlots(linear, i, 0, d.trail, new_bright)
                  ELSE s.drop_bright_packed
        s1   == [s EXCEPT
                   !.drops[i] = d1,
                   !.drop_char_idx[i] = chars1,
                   !.drop_bright_packed = bp1]
    IN  IF TrailOffScreen(d1) THEN P1_DeactivateDrop(s1, i) ELSE s1

RECURSIVE P1_StepDropsFrom(_, _, _, _)
P1_StepDropsFrom(s, i, h, new_bright) ==
  IF i >= MAX_DROPS THEN s
  ELSE P1_StepDropsFrom(P1_StepDrop(s, i, h, new_bright), i + 1, h, new_bright)

P1_stepDrops(s, h, new_bright) == P1_StepDropsFrom(s, 0, h, new_bright)

(***************************************************************************)
(* SpecP1: maybeSpawnDrop and stepDrops of part_001 in turn.  The bytes    *)
(* found in new_bright are drawn from StackImages at every call.           *)
(***************************************************************************)
\* contents the stack may hold where new_bright is placed: all zero, all
\* ones, a copy of the linear decay for the longest trail, a rising ramp
StackImages ==
  { [k \in SlotIdx |-> 0],
    [k \in SlotIdx |-> 255],
    [k \in SlotIdx |-> P1_LinearDecay(k, MAX_TRAIL)],
    [k \in SlotIdx |-> k + 4] }

InitP1 ==
  /\ SimIs(setupState)
  /\ spawn_roll = 255
  /\ global_rng = << >>
  /\ cols = << >>
  /\ serial = << >>
  /\ pc = "P1_maybeSpawnDrop"

P1_Call_maybeSpawnDrop ==
  /\ pc = "P1_maybeSpawnDrop"
  /\ \E roll \in SpawnRolls, r2 \in ColDraws, g \in SpawnDraws, h \in HashDraws :
        SetSim(P1_maybeSpawnDrop(Sim, roll, r2, g, h))
  /\ pc' = "P1_stepDrops"
  /\ UNCHANGED <<spawn_roll, global_rng, cols, serial>>

P1_Call_stepDrops ==
  /\ pc = "P1_stepDrops"
  /\ \E h \in HashDraws, new_bright \in StackImages :
        SetSim(P1_stepDrops(Sim, h, new_bright))
  /\ pc' = "P1_maybeSpawnDrop"
  /\ UNCHANGED <<spawn_roll, global_rng, cols, serial>>

NextP1 ==
  \/ P1_Call_maybeSpawnDrop
  \/ P1_Call_stepDrops

SpecP1 == InitP1 /\ [][NextP1]_vars

\* a step of stepDrops that advanced the head of drop i and left it active
C24_Advanced(i) ==
  /\ pc = "P1_stepDrops"
  /\ drops[i].head # -1
  /\ drops'[i].head = drops[i].head + 1

C24_LinearAfterAdvance ==
  \A i \in DropIdx :
    C24_Advanced(i) =>
      \A k \in 0 .. drops[i].trail - 1 :
        P1_get_bright_slot(drop_bright_packed', i, k) = P1_LinearDecay(k, drops[i].trail)

\* C24 as claimed: in part_001, right after stepDrops advanced the head of a
\* Drop, slot 0 holds 3 and every slot k in 1..trail-1 holds
\* 3 - floor(3*k / trail), whatever memory the call did not write held.
C24_Claim == [][C24_LinearAfterAdvance]_vars

\* C24 witness: stepDrops has just advanced a Drop of trail MAX_TRAIL and its
\* stored head slot is 0, its slot 1 is 1: the bytes of new_bright, not the
\* linear decay
C24_Witness ==
  /\ pc = "P1_maybeSpawnDrop"
  /\ \E i \in DropIdx :
       /\ drops[i].head > 0
       /\ drops[i].age = 0
       /\ drops[i].trail = MAX_TRAIL
       /\ P1_get_bright_slot(drop_bright_packed, i, 0) = 0
       /\ P1_get_bright_slot(drop_bright_packed, i, 1) = 1

(***************************************************************************)
(* SpecFinV: tested/basic_colorized.ino, one step per state-changing call  *)
(* of loop(), so that the state between stepDrops and stepFastDrops is a   *)
(* state of the behaviour.                                                 *)
(***************************************************************************)
InitFinV ==
  /\ SimIs(Fin_setupState)
  /\ spawn_roll = 255
  /\ global_rng = << >>
  /\ cols = << >>
  /\ serial = << >>
  /\ pc = "Fin_maybeSpawnDrop"

Fin_Call_maybeSpawnDrop ==
  /\ pc = "Fin_maybeSpawnDrop"
  /\ \E roll \in SpawnRolls, w \in Fin_SpawnWords, h \in HashDraws :
        SetSim(Fin_maybeSpawnDrop(Sim, roll, w, h))
  /\ pc' = "Fin_maybeSpawnFastDrop"
  /\ UNCHANGED <<spawn_roll, global_rng, cols, serial>>

Fin_Call_maybeSpawnFastDrop ==
  /\ pc = "Fin_maybeSpawnFastDrop"
  /\ \E roll \in FastRolls, r2 \in ColDraws, h \in HashDraws :
        SetSim(Fin_maybeSpawnFastDrop(Sim, roll, r2, h))
  /\ pc' = "Fin_stepDrops"
  /\ UNCHANGED <<spawn_roll, global_rng, cols, serial>>

Fin_Call_stepDrops ==
  /\ pc = "Fin_stepDrops"
  /\ \E h \in HashDraws : SetSim(Fin_stepDrops(Sim, h))
  /\ pc' = "Fin_stepFastDrops"
  /\ UNCHANGED <<spawn_roll, global_rng, cols, serial>>

Fin_Call_stepFastDrops ==
  /\ pc = "Fin_stepFastDrops"
  /\ \E h \in HashDraws : SetSim(Fin_stepFastDrops(Sim, h))
  /\ pc' = "Fin_maybeSpawnDrop"
  /\ UNCHANGED <<spawn_roll, global_rng, cols, serial>>

NextFinV ==
  \/ Fin_Call_maybeSpawnDrop
  \/ Fin_Call_maybeSpawnFastDrop
  \/ Fin_Call_stepDrops
  \/ Fin_Call_stepFastDrops

SpecFinV == InitFinV /\ [][NextFinV]_vars

\* a stepFastDrops step in which FastDrop fi moved onto the head row of the
\* Drop di of its column
C25_HitsHead(fi, di) ==
  /\ pc = "Fin_stepFastDrops"
  /\ fasts[fi].active
  /\ fasts[fi].row + 1 < TERM_ROWS
  /\ di = Fin_findDropIndexInColumn(drops, fasts[fi].col)
  /\ di # -1
  /\ fasts[fi].row + 1 = drops[di].head_row

\* the brightest level a two-bit slot can hold; the sketch's overlay level 4 is above it
C25_IsMaximum(b) == b >= 3

C25_AfterHit ==
  \A fi \in FastIdx, di \in DropIdx :
    C25_HitsHead(fi, di) =>
      /\ drops'[di].boost >= 8
      /\ C25_IsMaximum(Fin_get_bright_slot(drop_bright_packed', di, 0))

C25_AfterSpawn ==
  \A i \in DropIdx :
    (pc = "Fin_maybeSpawnDrop" /\ drops[i].head_row = -1 /\ drops'[i].head_row = 0) =>
      C25_IsMaximum(Fin_get_bright_slot(drop_bright_packed', i, 0))

\* C25 as claimed: in basic_colorized.ino, when a FastDrop hits the head of a
\* Drop in stepFastDrops, at the end of the call the Drop's boost is at least
\* 8 and its stored head slot holds the maximum brightness; the head slot of
\* a freshly spawned Drop holds the maximum brightness too.
C25_Claim == [][C25_AfterHit /\ C25_AfterSpawn]_vars

\* the boost half of C25 alone
C25_BoostAfterHit ==
  [][\A fi \in FastIdx, di \in DropIdx :
       C25_HitsHead(fi, di) => drops'[di].boost >= 8]_vars

\* C25 witness: stepFastDrops has just ended with a Drop boosted to 8 by a
\* FastDrop that stopped on its head row, and the stored head slot reads 0
C25_Witness ==
  /\ pc = "Fin_maybeSpawnDrop"
  /\ \E di \in DropIdx, fi \in FastIdx :
       /\ drops[di].head_row # -1
       /\ drops[di].boost = 8
       /\ ~fasts[fi].active
       /\ fasts[fi].col = drops[di].col
       /\ fasts[fi].row = drops[di].head_row
       /\ Fin_get_bright_slot(drop_bright_packed, di, 0) = 0

\* the active Drop in the column of FastDrop fi, or -1
C26_DropUnder(fi) == Fin_findDropIndexInColumn(drops, fasts[fi].col)

\* a stepFastDrops step moves the active FastDrop fi to or below the head_row
\* of the Drop of its column, on the screen
C26_ReachesHead(fi) ==
  /\ pc = "Fin_stepFastDrops"
  /\ fasts[fi].active
  /\ fasts[fi].row + 1 < TERM_ROWS
  /\ C26_DropUnder(fi) # -1
  /\ fasts[fi].row + 1 >= drops[C26_DropUnder(fi)].head_row

C26_StoppedAndBoosted ==
  \A fi \in FastIdx :
    C26_ReachesHead(fi) =>
      /\ ~fasts'[fi].active
      /\ drops'[C26_DropUnder(fi)].boost # 0

\* between two ticks no active FastDrop is below the head_row of the Drop of its column
C26_NoneBelowHead ==
  pc = "Fin_maybeSpawnDrop" =>
    \A fi \in FastIdx :
      (fasts[fi].active /\ C26_DropUnder(fi) # -1) =>
        fasts[fi].row <= drops[C26_DropUnder(fi)].head_row

\* C26 as claimed: in basic_colorized.ino a FastDrop whose row reaches or
\* passes the head_row of the active Drop of its column is deactivated and
\* that Drop's boost becomes nonzero in the same tick, and no active FastDrop
\* ends a tick with row > head_row of an active Drop in its column.
C26_Claim == [][C26_StoppedAndBoosted /\ C26_NoneBelowHead']_vars

\* what does hold: a FastDrop that lands exactly on head_row is stopped and boosts
C26_ExactHit ==
  [][\A fi \in FastIdx :
       (C26_ReachesHead(fi) /\ fasts[fi].row + 1 = drops[C26_DropUnder(fi)].head_row) =>
          (~fasts'[fi].active /\ drops'[C26_DropUnder(fi)].boost # 0)]_vars

\* C26 witness: a tick has ended with an active FastDrop on row 1 in the
\* column of an active, unboosted Drop whose head_row is 0
C26_Witness ==
  /\ pc = "Fin_maybeSpawnDrop"
  /\ \E fi \in FastIdx, di \in DropIdx :
       /\ fasts[fi].active
       /\ fasts[fi].row = 1
       /\ di = C26_DropUnder(fi)
       /\ drops[di].head_row = 0
       /\ drops[di].boost = 0

\* boost of every Drop is within 0..6
C27_BoostInRange == \A i \in DropIdx : drops[i].boost \in 0 .. 6

\* a stepDrops call, the one place of a tick where boost is counted down,
\* takes exactly one from the nonzero boost of every Drop that stays active;
\* the spawn calls leave boost alone
C27_CountsTicks ==
  \A i \in DropIdx :
    (Active(drops[i]) /\ Active(drops'[i]) /\ drops[i].boost > 0) =>
      IF pc = "stepDrops" THEN drops'[i].boost = drops[i].boost - 1
      ELSE IF pc = "stepFastDrops" THEN drops'[i].boost >= drops[i].boost
      ELSE drops'[i].boost = drops[i].boost

\* C27 as claimed: in vectorized.ino boost counts frames: after an impact set
\* it to 6 it goes down by exactly one every tick, whatever the speed of the
\* Drop, so it is 0 after 6 ticks; and boost stays within 0..6.
C27_Claim == [](C27_BoostInRange) /\ [][C27_CountsTicks]_vars

\* what does hold: boost goes down by one exactly when the head advances
C27_CountsAdvances ==
  [][\A i \in DropIdx :
       (pc = "stepDrops" /\ Active(drops[i]) /\ Active(drops'[i])) =>
          drops'[i].boost =
            IF drops'[i].head # drops[i].head /\ drops[i].boost > 0
              THEN drops[i].boost - 1 ELSE drops[i].boost]_vars

\* C27 witness: stepDrops has just run on a Drop of speed 2 without advancing
\* it (age 1), and its boost is still the 6 set by the last impact
C27_Witness ==
  /\ pc = "stepFastDrops"
  /\ \E i \in ActiveDrops :
       /\ drops[i].speed = 2
       /\ drops[i].age = 1
       /\ drops[i].boost = 6

\* the head cell of Drop i is on the screen, i is boosted, and no FastDrop paints the cell
C28_BoostedHeadShown(i) ==
  /\ Active(drops[i])
  /\ drops[i].boost # 0
  /\ drops[i].head \in RowIdx
  /\ ~FastPaintFrom(fasts, drops[i].head, drops[i].col, 0).painted

\* C28 as claimed: in vectorized.ino, in any state, the head cell of an active
\* Drop with nonzero boost that no FastDrop paints is rendered by renderFrame
\* at level 4, the level of a FastDrop, not at the ordinary head level.
C28_Claim ==
  \A i \in DropIdx :
    C28_BoostedHeadShown(i) => CellPaint(Sim, drops[i].head, drops[i].col).brightness = 4

\* what does hold: the cell is rendered at the stored level of slot 0, which is 3
C28_StoredLevel ==
  \A i \in DropIdx :
    C28_BoostedHeadShown(i) =>
      /\ CellPaint(Sim, drops[i].head, drops[i].col).brightness =
           get_bright_slot(drop_bright_packed, i, 0)
      /\ get_bright_slot(drop_bright_packed, i, 0) = 3

\* C28 witness: a Drop boosted to 6 has its head on the screen, no FastDrop
\* paints the head cell, and the cell is rendered at level 3
C28_Witness ==
  \E i \in DropIdx :
    /\ C28_BoostedHeadShown(i)
    /\ drops[i].boost = 6
    /\ CellPaint(Sim, drops[i].head, drops[i].col).brightness = 3

(***************************************************************************)
(* C29: the FastDrop loop of renderFrame with Tall_MAX_FAST FastDrops,     *)
(* applied to the states of SpecTall.                                      *)
(***************************************************************************)
RECURSIVE Tall_FastPaintFrom(_, _, _, _)
Tall_FastPaintFrom(fs, r, c, fi) ==
  IF fi >= Tall_MAX_FAST THEN [painted |-> FALSE, brightness |-> 0, ch |-> " "]
  ELSE LET f == fs[fi] IN
       IF ~f.active \/ f.col # c THEN Tall_FastPaintFrom(fs, r, c, fi + 1)
       ELSE IF f.row = r
         THEN [painted |-> TRUE, brightness |-> 4, ch |-> charForFast(f)]
       ELSE IF f.row - 1 = r
         THEN [painted |-> TRUE, brightness |-> 2, ch |-> charForFast(f)]
       ELSE Tall_FastPaintFrom(fs, r, c, fi + 1)

Tall_CellPaint(s, r, c) ==
  LET fp == Tall_FastPaintFrom(s.fasts, r, c, 0)
  IN  IF fp.painted THEN fp
      ELSE IF s.column_occupied[c] THEN DropPaintFrom(s, r, c, 0)
      ELSE [painted |-> FALSE, brightness |-> 0, ch |-> " "]

\* some active FastDrop stands on cell (r, c)
C29_FastOn(r, c) ==
  \E fi \in Tall_FastIdx : fasts[fi].active /\ fasts[fi].col = c /\ fasts[fi].row = r

\* cell (r, c) is directly above some active FastDrop
C29_FastBelow(r, c) ==
  \E fi \in Tall_FastIdx : fasts[fi].active /\ fasts[fi].col = c /\ fasts[fi].row - 1 = r

C29_Cells == (0 .. Tall_TERM_ROWS - 1) \X ColIdx

\* a cell on which a FastDrop stands is rendered at level 4
C29_FastCellBrightest ==
  \A rc \in C29_Cells :
    C29_FastOn(rc[1], rc[2]) => Tall_CellPaint(Sim, rc[1], rc[2]).brightness = 4

\* the FastDrop loop gives level 2 only to a cell above a FastDrop on which no FastDrop stands
C29_FaintOnlyAbove ==
  \A rc \in C29_Cells :
    LET fp == Tall_FastPaintFrom(fasts, rc[1], rc[2], 0)
    IN  (fp.painted /\ fp.brightness = 2) =>
           (C29_FastBelow(rc[1], rc[2]) /\ ~C29_FastOn(rc[1], rc[2]))

\* the level of a Drop slot is used only for a cell no FastDrop paints
C29_DropOnlyUnpainted ==
  \A rc \in C29_Cells :
    (C29_FastOn(rc[1], rc[2]) \/ C29_FastBelow(rc[1], rc[2])) =>
       Tall_CellPaint(Sim, rc[1], rc[2]) = Tall_FastPaintFrom(fasts, rc[1], rc[2], 0)

\* C29 as claimed: in vectorized.ino, in every state and for every cell, a
\* cell on which an active FastDrop stands is rendered at level 4 whatever
\* other FastDrops and Drops are in the column; level 2 is used only for a
\* cell directly above a FastDrop on which no FastDrop stands; the level of a
\* Drop is used only when no FastDrop paints the cell.
C29_Claim == C29_FastCellBrightest /\ C29_FaintOnlyAbove /\ C29_DropOnlyUnpainted

\* what does hold: the cell gets the level of the first FastDrop, in index
\* order, that stands on it or directly below it
C29_FirstInIndexOrder ==
  \A rc \in C29_Cells :
    \A fi \in Tall_FastIdx :
      ( /\ fasts[fi].active /\ fasts[fi].col = rc[2]
        /\ fasts[fi].row \in {rc[1], rc[1] + 1}
        /\ \A fj \in 0 .. fi - 1 :
             ~(fasts[fj].active /\ fasts[fj].col = rc[2]
               /\ fasts[fj].row \in {rc[1], rc[1] + 1}) ) =>
        Tall_CellPaint(Sim, rc[1], rc[2]).brightness =
          IF fasts[fi].row = rc[1] THEN 4 ELSE 2

\* C29 witness: FastDrop 1 stands on a cell, FastDrop 0 stands directly below
\* it in the same column, and the cell is rendered at level 2
C29_Witness ==
  /\ fasts[0].active /\ fasts[1].active
  /\ fasts[0].col = fasts[1].col
  /\ fasts[0].row = fasts[1].row + 1
  /\ Tall_CellPaint(Sim, fasts[1].row, fasts[1].col).brightness = 2

(***************************************************************************)
(* C30: brightnessFor of Arduino_rain_opt.ino, applied to the columns of   *)
(* SpecCol.                                                                *)
(***************************************************************************)
\* mutant: the cell at distance trail is dark
Col_brightnessFor_Strict(col, r) ==
  IF col.head = -1 THEN 0
  ELSE LET dist == col.head - r IN
       IF dist < 0 \/ dist >= col.trail THEN 0
       ELSE IF dist = 0 THEN 3
       ELSE IF dist = 1 THEN 2
       ELSE IF dist = 2 THEN 1
       ELSE 1

\* brightnessFor(c, r) with col = cols[c]
Col_brightnessFor(col, r) ==
  IF col.head = -1 THEN 0
  ELSE LET dist == col.head - r IN
       IF dist < 0 \/ dist > col.trail THEN 0
       ELSE IF dist = 0 THEN 3
       ELSE IF dist = 1 THEN 2
       ELSE IF dist = 2 THEN 1
       ELSE 1

Col_RowIdx == 0 .. Col_TERM_ROWS - 1

\* the rows of column c that brightnessFor lights
C30_Lit(c) == {r \in Col_RowIdx : Col_brightnessFor(cols[c], r) # 0}

\* the level by distance: 3 at the head, 2 next to it, 1 further up
C30_Level(dist) == IF dist = 0 THEN 3 ELSE IF dist = 1 THEN 2 ELSE 1

\* brightnessFor is nonzero exactly for an active column and a distance in
\* 0 .. last, with the level of the distance, and lights at most `most` cells
C30_Shape(c, last, most) ==
  /\ \A r \in Col_RowIdx :
       LET dist == cols[c].head - r
           b    == Col_brightnessFor(cols[c], r)
       IN  /\ (b # 0) <=> (cols[c].head # -1 /\ dist \in 0 .. last)
           /\ b = IF b # 0 THEN C30_Level(dist) ELSE 0
  /\ Cardinality(C30_Lit(c)) <= most

\* C30 as claimed: brightnessFor is nonzero exactly when head - r is in
\* [0, trail), so an active column lights at most trail cells; 3 for distance
\* 0, 2 for distance 1, 1 for larger in-range distances, 0 otherwise.
C30_Original == \A c \in ColIdx : C30_Shape(c, cols[c].trail - 1, cols[c].trail)

\* C30, corrected: brightnessFor is nonzero exactly when the column is active
\* and head - r is in [0, trail], both ends included, so an active column
\* lights at most trail + 1 cells; 3 for distance 0, 2 for distance 1, 1 for
\* the distances 2 .. trail, 0 otherwise.
C30_Thm == \A c \in ColIdx : C30_Shape(c, cols[c].trail, cols[c].trail + 1)

\* C30 witness: a column of trail 3 with its head on the last row lights all
\* four rows, the top one at distance trail with level 1
C30_Witness ==
  \E c \in ColIdx :
    /\ cols[c].head = Col_TERM_ROWS - 1
    /\ cols[c].trail = 3
    /\ Cardinality(C30_Lit(c)) = cols[c].trail + 1
    /\ Col_brightnessFor(cols[c], cols[c].head - cols[c].trail) = 1

(***************************************************************************)
(* unnamed/part_001: maybeSpawnFastDrop, stepFastDrops and the crawling-   *)
(* drop branch of renderFrame.  renderFrame draws slot r - head at row r,  *)
(* so a Drop covers the rows head .. head + trail - 1.                     *)
(***************************************************************************)
P1_maybeSpawnFastDrop(s, roll, r2, h) ==
  IF roll > SPAWN_FAST_CHANCE THEN s
  ELSE
    LET start_col     == U8(r2 % TERM_COLS)
        col_with_drop == ScanColumns(s.column_occupied, start_col, 0, TRUE)
    IN  IF col_with_drop = -1 THEN s
        ELSE
          LET fidx == FirstFrom([i \in FastIdx |-> ~s.fasts[i].active], 0, MAX_FAST)
          IN  IF fidx = -1 THEN s
              ELSE [s EXCEPT !.fasts[fidx] =
                      [active |-> TRUE, col |-> col_with_drop, row |-> 0,
                       speed |-> 1, age |-> 0, rng |-> h]]

\* the body of the loop of stepFastDrops for fast drop i
P1_StepFast(s, i, h) ==
  LET f == s.fasts[i] IN
  IF ~f.active THEN s
  ELSE
    LET age1 == U8(f.age + 1) IN
    IF age1 < f.speed THEN [s EXCEPT !.fasts[i].age = age1]
    ELSE
      LET row1 == f.row + 1
          f1   == [f EXCEPT !.age = 0, !.row = row1]
      IN  IF row1 >= TERM_ROWS THEN [s EXCEPT !.fasts[i] = [f1 EXCEPT !.active = FALSE]]
          ELSE
            LET di == findDropIndexInColumn(s.drops, f.col) IN
            IF di = -1 THEN [s EXCEPT !.fasts[i] = f1]
            ELSE
              LET d      == s.drops[di]
                  bottom == d.head - (d.trail - 1)
                  dist   == row1 - d.head
                  pass   == row1 >= bottom /\ row1 <= d.head
                              /\ dist >= 0 /\ dist < d.trail
                  cur    == P1_get_bright_slot(s.drop_bright_packed, di, dist)
                  nb     == IF cur < 3 THEN cur + 1 ELSE 3
                  chars1 == IF pass
                              THEN [s.drop_char_idx EXCEPT ![di][dist] = pickIndex(h)]
                              ELSE s.drop_char_idx
                  bp1    == IF pass
                              THEN P1_set_bright_slot(s.drop_bright_packed, di, dist, nb)
                              ELSE s.drop_bright_packed
              IN  IF row1 >= bottom
                    THEN [s EXCEPT
                            !.drops[di].boost = IF d.boost < 8 THEN 8 ELSE d.boost,
                            !.drop_char_idx = chars1,
                            !.drop_bright_packed = P1_set_bright_slot(bp1, di, 0, 3),
                            !.fasts[i] = [f1 EXCEPT !.active = FALSE]]
                    ELSE [s EXCEPT
                            !.drop_char_idx = chars1,
                            !.drop_bright_packed = bp1,
                            !.fasts[i] = f1]

RECURSIVE P1_StepFastsFrom(_, _, _)
P1_StepFastsFrom(s, i, h) ==
  IF i >= MAX_FAST THEN s ELSE P1_StepFastsFrom(P1_StepFast(s, i, h), i + 1, h)

P1_stepFastDrops(s, h) == P1_StepFastsFrom(s, 0, h)

\* the crawling-drop loop of a cell in renderFrame of part_001
RECURSIVE P1_DropPaintFrom(_, _, _, _)
P1_DropPaintFrom(s, r, c, di) ==
  IF di >= MAX_DROPS THEN [painted |-> FALSE, brightness |-> 0, ch |-> " ", slot |-> -1]
  ELSE LET d == s.drops[di]
           dist == r - d.head
       IN  IF d.head = -1 \/ d.col # c THEN P1_DropPaintFrom(s, r, c, di + 1)
           ELSE IF dist >= 0 /\ dist < d.trail
             THEN [painted |-> TRUE,
                   brightness |-> IF dist = 0 /\ d.boost > 0 THEN 4
                                  ELSE P1_get_bright_slot(s.drop_bright_packed, di, dist),
                   ch |-> charset_at_idx(s.drop_char_idx[di][dist]),
                   slot |-> dist]
           ELSE P1_DropPaintFrom(s, r, c, di + 1)

(***************************************************************************)
(* SpecP1F: the four state-changing calls of loop() of part_001 in turn.   *)
(***************************************************************************)
\* contents of new_bright tried in the full tick: all zero, or a copy of the
\* linear decay for the longest trail
P1F_StackImages ==
  { [k \in SlotIdx |-> 0],
    [k \in SlotIdx |-> P1_LinearDecay(k, MAX_TRAIL)] }

InitP1F ==
  /\ SimIs(setupState)
  /\ spawn_roll = 255
  /\ global_rng = << >>
  /\ cols = << >>
  /\ serial = << >>
  /\ pc = "maybeSpawnDrop"

P1F_Call_maybeSpawnDrop ==
  /\ pc = "maybeSpawnDrop"
  /\ \E roll \in SpawnRolls, r2 \in ColDraws, g \in SpawnDraws, h \in HashDraws :
        SetSim(P1_maybeSpawnDrop(Sim, roll, r2, g, h))
  /\ pc' = "maybeSpawnFastDrop"
  /\ UNCHANGED <<spawn_roll, global_rng, cols, serial>>

P1F_Call_maybeSpawnFastDrop ==
  /\ pc = "maybeSpawnFastDrop"
  /\ \E roll \in FastRolls, r2 \in ColDraws, h \in HashDraws :
        SetSim(P1_maybeSpawnFastDrop(Sim, roll, r2, h))
  /\ pc' = "stepDrops"
  /\ UNCHANGED <<spawn_roll, global_rng, cols, serial>>

P1F_Call_stepDrops ==
  /\ pc = "stepDrops"
  /\ \E h \in HashDraws, new_bright \in P1F_StackImages :
        SetSim(P1_stepDrops(Sim, h, new_bright))
  /\ pc' = "stepFastDrops"
  /\ UNCHANGED <<spawn_roll, global_rng, cols, serial>>

P1F_Call_stepFastDrops ==
  /\ pc = "stepFastDrops"
  /\ \E h \in HashDraws : SetSim(P1_stepFastDrops(Sim, h))
  /\ pc' = "maybeSpawnDrop"
  /\ UNCHANGED <<spawn_roll, global_rng, cols, serial>>

NextP1F ==
  \/ P1F_Call_maybeSpawnDrop
  \/ P1F_Call_maybeSpawnFastDrop
  \/ P1F_Call_stepDrops
  \/ P1F_Call_stepFastDrops

SpecP1F == InitP1F /\ [][NextP1F]_vars

\* the rows of the screen at which renderFrame draws a slot of Drop i
C31_DrawnRows(i) ==
  {r \in RowIdx : P1_DropPaintFrom(Sim, r, drops[i].col, 0).painted}

\* C31 as claimed: in part_001 a Drop is deactivated in the first tick in
\* which none of the cells renderFrame would draw for it is on the screen:
\* between two ticks every active Drop has a drawn cell on the screen.
C31_Claim ==
  pc = "maybeSpawnDrop" => \A i \in ActiveDrops : C31_DrawnRows(i) # {}

\* what does hold: an active Drop has head <= TERM_ROWS + trail - 2, and it
\* has a drawn cell on the screen exactly while head < TERM_ROWS
C31_ActualWindow ==
  \A i \in ActiveDrops :
    /\ drops[i].head <= TERM_ROWS + drops[i].trail - 2
    /\ (C31_DrawnRows(i) # {}) <=> (drops[i].head < TERM_ROWS)

\* C31 witness: between two ticks a Drop is active with its head on row
\* TERM_ROWS, so that all the rows renderFrame draws for it are below the screen
C31_Witness ==
  /\ pc = "maybeSpawnDrop"
  /\ \E i \in ActiveDrops :
       /\ drops[i].head = TERM_ROWS
       /\ column_occupied[drops[i].col]
       /\ C31_DrawnRows(i) = {}

\* FastDrop fi moves in this stepFastDrops call, stays on the screen, and the
\* row it moves to is one at which renderFrame draws slot s of Drop di
C32_LandsOnSlot(fi, di, s) ==
  /\ pc = "stepFastDrops"
  /\ fasts[fi].active
  /\ U8(fasts[fi].age + 1) >= fasts[fi].speed
  /\ fasts[fi].row + 1 < TERM_ROWS
  /\ di = findDropIndexInColumn(drops, fasts[fi].col)
  /\ P1_DropPaintFrom(Sim, fasts[fi].row + 1, fasts[fi].col, 0).painted
  /\ P1_DropPaintFrom(Sim, fasts[fi].row + 1, fasts[fi].col, 0).slot = s

\* slot s of Drop di has a fresh glyph and a brightness one higher, capped at
\* 3 (the head slot is set to 3 when the FastDrop stops)
C32_SlotBumped(di, s) ==
  /\ drop_char_idx'[di][s] \in {pickIndex(h) : h \in HashDraws}
  /\ P1_get_bright_slot(drop_bright_packed', di, s) =
       IF s = 0 \/ P1_get_bright_slot(drop_bright_packed, di, s) = 3 THEN 3
       ELSE P1_get_bright_slot(drop_bright_packed, di, s) + 1

\* C32 as claimed: in part_001, whenever the row of an active FastDrop after
\* its move is a row at which renderFrame draws slot s of the Drop of its
\* column, stepFastDrops re-rolls the glyph and bumps the brightness of that
\* slot s, for every s in 0..trail-1.
C32_Claim ==
  [][\A fi \in FastIdx, di \in DropIdx, s \in SlotIdx :
       C32_LandsOnSlot(fi, di, s) => C32_SlotBumped(di, s)]_vars

\* what does hold: the head slot is bumped when the FastDrop lands on it, and
\* no slot other than the head slot is ever changed by stepFastDrops
C32_HeadSlotOnly ==
  [][/\ \A fi \in FastIdx, di \in DropIdx :
          C32_LandsOnSlot(fi, di, 0) => C32_SlotBumped(di, 0)
     /\ pc = "stepFastDrops" =>
          \A di \in DropIdx, s \in 1 .. MAX_TRAIL - 1 :
            /\ P1_get_bright_slot(drop_bright_packed', di, s) =
                 P1_get_bright_slot(drop_bright_packed, di, s)
            /\ drop_char_idx'[di][s] = drop_char_idx[di][s]]_vars

\* C32 witness: stepFastDrops has just stopped a FastDrop on row head + 1 of
\* a Drop that has not moved since its spawn, and slot 1, which renderFrame
\* draws on that row, still holds its spawn brightness 2
C32_Witness ==
  /\ pc = "maybeSpawnDrop"
  /\ \E fi \in FastIdx, di \in ActiveDrops :
       /\ ~fasts[fi].active
       /\ fasts[fi].col = drops[di].col
       /\ fasts[fi].row = drops[di].head + 1
       /\ drops[di].head = 0
       /\ drops[di].boost = 8
       /\ P1_DropPaintFrom(Sim, fasts[fi].row, fasts[fi].col, 0).slot = 1
       /\ P1_get_bright_slot(drop_bright_packed, di, 1) = 2

(***************************************************************************)
(* SpecFinVLive: SpecFinV with loop() called again and again, as the       *)
(* Arduino runtime does.  Every call of the tick is always possible and    *)
(* moves pc on, so "the next call is eventually made" is weak fairness of  *)
(* the step that changes pc.                                               *)
(***************************************************************************)
Fin_Labels ==
  {"Fin_maybeSpawnDrop", "Fin_maybeSpawnFastDrop", "Fin_stepDrops", "Fin_stepFastDrops"}

\* some call of loop() returns
Fin_CallReturns == pc' \in Fin_Labels /\ pc' # pc

SpecFinVLive == InitFinV /\ [][NextFinV]_vars /\ WF_pc(Fin_CallReturns)

\* Drop i is inactive and the flag of the column it had is clear
C33_Gone(i) == drops[i].head_row = -1 /\ ~column_occupied[drops[i].col]

\* every active Drop is eventually inactive with its column flag clear
C33_EventuallyGone == \A i \in DropIdx : (drops[i].head_row # -1) ~> C33_Gone(i)

\* a Drop goes inactive only in stepDrops, with all its slots reading zero and
\* its head_row at or below TERM_ROWS, and its column flag is cleared with it
C33_OnlyWhenFaded ==
  \A i \in DropIdx :
    (drops[i].head_row # -1 /\ drops'[i].head_row = -1) =>
      /\ pc = "Fin_stepDrops"
      /\ Fin_all_faded(drop_bright_packed', i, drops[i].trail)
      /\ drops[i].head_row + 1 >= TERM_ROWS
      /\ ~column_occupied'[drops[i].col]

\* C33: in basic_colorized.ino, under any sequence of ticks with arbitrary
\* draws and FastDrop interactions, every active Drop is eventually
\* deactivated and its column flag cleared (no slot stays nonzero forever
\* with head_row >= TERM_ROWS), and a Drop is deactivated only when all slots
\* 0..trail-1 read zero and head_row >= TERM_ROWS.
C33_Thm == C33_EventuallyGone /\ [][C33_OnlyWhenFaded]_vars

\* C33 witness: stepDrops has just deactivated a Drop that had been bumped by
\* a FastDrop (boost was set): its head_row is -1, its column flag is clear
C33_Witness ==
  /\ pc = "Fin_stepFastDrops"
  /\ \E i \in DropIdx :
       /\ drops[i].trail # 0
       /\ C33_Gone(i)
       /\ \E fi \in FastIdx : fasts[fi].col = drops[i].col /\ fasts[fi].row > 0

(***************************************************************************)
(* C34: the indices the calls of vectorized.ino use, computed from the     *)
(* state as the code computes them (SpecV).                                *)
(***************************************************************************)
\* the bytes of a packed row that get_bright_slot / set_bright_slot touch for a slot
C34_BytesOfSlot(slot) ==
  LET bitpos  == slot * 2
      byteIdx == U8(Shr(bitpos, 3))
      bitOff  == U8(BitAnd(bitpos, 7))
  IN  IF bitOff <= 6 THEN {byteIdx} ELSE {byteIdx, byteIdx + 1}

\* the slots a call may use are table slots, and so are their bytes
C34_SlotsOk(S) ==
  /\ S \subseteq SlotIdx
  /\ \A k \in S : C34_BytesOfSlot(k) \subseteq ByteIdx

\* maybeSpawnDrop: the Drop slot idx, the scanned and chosen columns, the
\* slots 0..trail-1 and trail..MAX_TRAIL-1 of the two fill loops
C34_SpawnDropOk ==
  \A r2 \in ColDraws, g \in SpawnDraws :
    LET idx       == FirstFrom([i \in DropIdx |-> drops[i].head = -1], 0, MAX_DROPS)
        start_col == U8(r2 % TERM_COLS)
        free_col  == ScanColumns(column_occupied, start_col, 0, FALSE)
        trail     == U8(SpawnTrail(g))
    IN  /\ idx \in DropIdx \cup {-1}
        /\ {(start_col + i) % TERM_COLS : i \in ColIdx} \subseteq ColIdx
        /\ free_col \in ColIdx \cup {-1}
        /\ C34_SlotsOk(0 .. trail - 1)
        /\ C34_SlotsOk(trail .. MAX_TRAIL - 1)

\* maybeSpawnFastDrop: the scanned and chosen columns, the FastDrop slot
C34_SpawnFastOk ==
  \A r2 \in ColDraws :
    LET start_col     == U8(r2 % TERM_COLS)
        col_with_drop == ScanColumns(column_occupied, start_col, 0, TRUE)
        fidx          == FirstFrom([i \in FastIdx |-> ~fasts[i].active], 0, MAX_FAST)
    IN  /\ {(start_col + i) % TERM_COLS : i \in ColIdx} \subseteq ColIdx
        /\ col_with_drop \in ColIdx \cup {-1}
        /\ fidx \in FastIdx \cup {-1}

\* stepDrops: the slots 0..trail-1 of drop_char_idx, tmp_bright and the packed
\* row, and the column flag of a Drop
C34_StepDropsOk ==
  \A i \in ActiveDrops :
    /\ C34_SlotsOk(0 .. drops[i].trail - 1)
    /\ drops[i].col \in ColIdx

\* stepFastDrops: the Drop found in the column and the slot dist = head - row
C34_StepFastOk ==
  \A fi \in FastIdx :
    fasts[fi].active =>
      LET row1 == fasts[fi].row + 1
          di   == findDropIndexInColumn(drops, fasts[fi].col)
      IN  /\ di \in DropIdx \cup {-1}
          /\ (di # -1 /\ row1 < TERM_ROWS) =>
               LET d      == drops[di]
                   bottom == d.head - (d.trail - 1)
                   dist   == d.head - row1
               IN  (row1 >= bottom /\ row1 <= d.head /\ dist >= 0 /\ dist < d.trail) =>
                      C34_SlotsOk({dist})

\* renderFrame: for every cell, the slot dist = head - r of a Drop of the
\* column and the glyph index read there
C34_RenderOk ==
  \A r \in RowIdx, c \in ColIdx, di \in DropIdx :
    LET dist == drops[di].head - r IN
    (column_occupied[c] /\ drops[di].head # -1 /\ drops[di].col = c
       /\ dist >= 0 /\ dist < drops[di].trail) =>
      /\ C34_SlotsOk({dist})
      /\ (drop_char_idx[di][dist] % Len(CHARSET)) + 1 \in DOMAIN CHARSET

\* the stored glyph indices and the glyph of a FastDrop are inside CHARSET
C34_GlyphsOk ==
  /\ \A i \in DropIdx, k \in SlotIdx : drop_char_idx[i][k] < Len(CHARSET)
  /\ \A fi \in FastIdx : pickIndex(fasts[fi].rng) < Len(CHARSET)

\* C34: in vectorized.ino, in every reachable state every index used by
\* maybeSpawnDrop, maybeSpawnFastDrop, stepDrops, stepFastDrops and
\* renderFrame is within its table: Drop and FastDrop indices, column
\* indices, slot indices below MAX_TRAIL, byte indices of the packed rows at
\* most BRIGHT_BYTES_PER_DROP, glyph indices below the character-set length.
C34_Thm ==
  /\ C34_SpawnDropOk
  /\ C34_SpawnFastOk
  /\ C34_StepDropsOk
  /\ C34_StepFastOk
  /\ C34_RenderOk
  /\ C34_GlyphsOk

\* C34 witness: before stepFastDrops a Drop of the longest trail is on the
\* screen with a FastDrop one row above a trail cell, every Drop slot is
\* taken, and the last slot of the packed row is in use
C34_Witness ==
  /\ pc = "stepFastDrops"
  /\ \A i \in DropIdx : Active(drops[i])
  /\ \E di \in DropIdx, fi \in FastIdx :
       /\ drops[di].trail = MAX_TRAIL
       /\ fasts[fi].active /\ fasts[fi].col = drops[di].col
       /\ drops[di].head - (fasts[fi].row + 1) \in 1 .. MAX_TRAIL - 1
       /\ get_bright_slot(drop_bright_packed, di, MAX_TRAIL - 1) # 0

(***************************************************************************)
(* Arduino_rain_opt_time.ino, first sketch: the palette follows the hour   *)
(* of day ("Pal_" prefix).  Without an RTC the hour comes from millis().   *)
(* millis() and simulated_start_ms are 32-bit words << hi, lo >>.  The     *)
(* sketch's globals and the clock are the record pc:                       *)
(*   simulated_start_ms, currentPaletteIndex  the globals of the sketch    *)
(*   millis    what millis() returned when the latest frame was rendered   *)
(*   halves    half hours of real time since setup() (not in the code)     *)
(* serial holds the colour selection of every cell of the latest frame.    *)
(* The rain itself (cols) is the per-column model above; here the          *)
(* brightness brightnessFor gives a cell is an input of renderFrame.       *)
(***************************************************************************)
Pal_TERM_ROWS == 1
Pal_Cells == (0 .. Pal_TERM_ROWS - 1) \X ColIdx

\* "const uint8_t palettes[][4]": [dim, low, mid, head] of palettes 0..7
Pal_palettes ==
  << << 235, 24, 37, 51 >>, << 233, 17, 18, 20 >>, << 237, 131, 166, 214 >>,
     << 236, 64, 70, 120 >>, << 250, 118, 46, 82 >>, << 238, 166, 172, 220 >>,
     << 237, 125, 129, 201 >>, << 232, 234, 240, 249 >> >>

Pal_PALETTE_COUNT == Len(Pal_palettes)

Pal_simulated_start_hour == 12

\* a - b of two words, modulo 2^32
W32Sub(a, b) == W32Add(a, W32Add(<< 65535 - b[1], 65535 - b[2] >>, << 0, 1 >>))

\* w / m of a word as an integer, for 0 < m < 2^15 and a quotient below 2^31
W32Div(w, m) == (w[1] \div m) * 65536 + ((w[1] % m) * 65536 + w[2]) \div m

\* readHour() without an RTC, called when millis() returns now
Pal_readHour(now, start) ==
  LET elapsed == W32Div(W32Sub(now, start), 1000)
      daysec  == elapsed % 86400
  IN  U8((Pal_simulated_start_hour + daysec \div 3600) % 24)

Pal_paletteIndexForHour(hour) ==
  IF hour < 4 THEN 0
  ELSE IF hour < 6 THEN 1
  ELSE IF hour < 8 THEN 2
  ELSE IF hour < 12 THEN 3
  ELSE IF hour < 16 THEN 4
  ELSE IF hour < 18 THEN 5
  ELSE IF hour < 20 THEN 6
  ELSE 0

\* what term_set_color_from_palette is called with, and the colour it emits
Pal_term_set_color_from_palette(paletteIndex, level, bold) ==
  LET p == IF paletteIndex >= Pal_PALETTE_COUNT THEN 0 ELSE paletteIndex
  IN  [paletteIndex |-> paletteIndex, level |-> level, bold |-> bold,
       color |-> Pal_palettes[p + 1][level + 1]]

\* the colour selection renderFrame makes for a cell of brightness b
Pal_CellColour(currentPaletteIndex, b) ==
  IF b = 0 THEN Pal_term_set_color_from_palette(currentPaletteIndex, 0, FALSE)
  ELSE LET bold  == (b = 3) \/ (currentPaletteIndex = 0 /\ b = 3)
           level == IF b >= 3 THEN 3 ELSE IF b = 2 THEN 2 ELSE 1
       IN  Pal_term_set_color_from_palette(currentPaletteIndex, level, bold)

\* updatePaletteFromRTC() at the time now
Pal_updatePaletteFromRTC(g, now) ==
  [g EXCEPT !.currentPaletteIndex =
              Pal_paletteIndexForHour(Pal_readHour(now, g.simulated_start_ms))]

\* renderFrame at the time now; bright[cell] is brightnessFor of the cell
Pal_renderFrame(g, now, bright) ==
  LET n == Pal_updatePaletteFromRTC(g, now)
  IN  [g |-> n,
       out |-> [cell \in Pal_Cells |-> Pal_CellColour(n.currentPaletteIndex, bright[cell])]]

\* half an hour, 1800000 ms, as a word
Pal_HalfHourMs == << 27, 30528 >>

\* the longest time from one frame to the next, in half hours
Pal_MaxGap == 2

\* half hours of running time explored; 2^32 ms is a little over 2386
Pal_MaxHalves == 2400

Pal_Brightness == 0 .. 3

InitPal ==
  /\ \E start \in MillisAtSetup :
        pc = [simulated_start_ms |-> << 0, start >>, currentPaletteIndex |-> 0,
              millis |-> << 0, start >>, halves |-> 0]
  /\ drops = << >>
  /\ fasts = << >>
  /\ column_occupied = << >>
  /\ drop_char_idx = << >>
  /\ drop_bright_packed = << >>
  /\ spawn_roll = 255
  /\ global_rng = << >>
  /\ cols = << >>
  /\ serial = setup_output

Pal_Rest ==
  <<drops, fasts, column_occupied, drop_char_idx, drop_bright_packed, spawn_roll,
    global_rng, cols>>

\* one loop(): the frame is rendered gap half hours after the previous one
Pal_Call_loop ==
  /\ pc.halves < Pal_MaxHalves
  /\ \E gap \in 1 .. Pal_MaxGap, bright \in [Pal_Cells -> Pal_Brightness] :
       \E now \in {W32Add(pc.millis, W32Mul(<< 0, gap >>, Pal_HalfHourMs))} :
         \E n \in {Pal_renderFrame(pc, now, bright)} :
            /\ pc' = [n.g EXCEPT !.millis = now, !.halves = pc.halves + gap]
            /\ serial' = n.out
  /\ UNCHANGED Pal_Rest

NextPal == Pal_Call_loop

SpecPal == InitPal /\ [][NextPal]_vars

\* a frame has been rendered
Pal_Rendered == pc.halves > 0

\* the hour readHour returned for the latest frame
Pal_Hour == Pal_readHour(pc.millis, pc.simulated_start_ms)

\* the hour -> palette table of the claim
C35_Table(hour) ==
  IF hour <= 3 THEN 0
  ELSE IF hour <= 5 THEN 1
  ELSE IF hour <= 7 THEN 2
  ELSE IF hour <= 11 THEN 3
  ELSE IF hour <= 15 THEN 4
  ELSE IF hour <= 17 THEN 5
  ELSE IF hour <= 19 THEN 6
  ELSE 0

\* the palette follows the table and stays inside palettes[]
C35_FollowsTable ==
  /\ \A hour \in 0 .. 23 :
        /\ Pal_paletteIndexForHour(hour) = C35_Table(hour)
        /\ Pal_paletteIndexForHour(hour) < Pal_PALETTE_COUNT
  /\ Pal_Rendered => pc.currentPaletteIndex = C35_Table(Pal_Hour)

\* every level passed to term_set_color_from_palette is one of 0..3
C35_LevelsInRange ==
  Pal_Rendered =>
    \A cell \in Pal_Cells :
       /\ serial[cell].level \in 0 .. 3
       /\ serial[cell].paletteIndex = pc.currentPaletteIndex

\* palettes the table selects for some hour of the day
C35_Selected == {Pal_paletteIndexForHour(hour) : hour \in 0 .. 23}

\* C35: for every hour 0..23 paletteIndexForHour returns an index below
\* PALETTE_COUNT following the table 0-3 -> 0, 4-5 -> 1, 6-7 -> 2, 8-11 -> 3,
\* 12-15 -> 4, 16-17 -> 5, 18-19 -> 6, 20-23 -> 0; every palette entry
\* 0..PALETTE_COUNT-1 is selected for at least one hour; the level passed to
\* term_set_color_from_palette is always in 0..3.
C35_Claim ==
  /\ C35_FollowsTable
  /\ C35_LevelsInRange
  /\ Pal_Rendered => \A p \in 0 .. Pal_PALETTE_COUNT - 1 : p \in C35_Selected

\* what the code does: the table and the level range hold, palettes 0..6 are
\* selected, and palette 7 is never the current one
C35_NightDeepUnused ==
  /\ C35_FollowsTable
  /\ C35_LevelsInRange
  /\ C35_Selected = 0 .. 6
  /\ pc.currentPaletteIndex # 7

\* a full day has been shown and the frame of the last hour is on the screen
C35_Witness ==
  /\ pc.halves >= 48
  /\ Pal_Hour = 23
  /\ pc.currentPaletteIndex = 0
  /\ \E cell \in Pal_Cells : serial[cell].level = 3

\* the hour of the simulated day by the real time since setup():
\* (simulated_start_hour + floor(elapsed_seconds / 3600)) mod 24; frames are
\* rendered whole half hours after setup()
C36_HourByUptime == (Pal_simulated_start_hour + pc.halves \div 2) % 24

\* the last half hour before 2^32 ms have elapsed: floor(2^32 / 1800000)
C36_LastHalf == 536870912 \div 225000

\* the hour of the new frame is that of the previous one or the next one
C36_SameOrNext == Pal_Hour' = Pal_Hour \/ Pal_Hour' = (Pal_Hour + 1) % 24

\* C36: without an RTC readHour always returns a value in 0..23 equal to
\* (simulated_start_hour + floor(elapsed_seconds / 3600)) mod 24, and between
\* two consecutive frames the returned hour stays the same or advances by
\* exactly one modulo 24, including when the 32-bit millis() counter wraps.
C36_Claim ==
  [][ /\ Pal_Hour' \in 0 .. 23
      /\ Pal_Hour' = C36_HourByUptime'
      /\ C36_SameOrNext ]_vars

\* what the code does: the statement holds until 2^32 ms have elapsed; the
\* frame after that shows the starting hour again, which is neither the hour
\* of the previous frame nor the next one
C36_RestartsAfterWrap ==
  [][ /\ Pal_Hour' \in 0 .. 23
      /\ pc'.halves <= C36_LastHalf =>
            Pal_Hour' = C36_HourByUptime' /\ C36_SameOrNext
      /\ (pc.halves <= C36_LastHalf /\ pc'.halves > C36_LastHalf) =>
            /\ Pal_Hour' = Pal_simulated_start_hour
            /\ Pal_Hour' # C36_HourByUptime'
            /\ ~C36_SameOrNext ]_vars

\* the first frame after millis() - simulated_start_ms has wrapped
C36_Witness ==
  /\ pc.halves = C36_LastHalf + 1
  /\ W32Sub(pc.millis, pc.simulated_start_ms)[1] < Pal_HalfHourMs[1] + 1
  /\ Pal_Hour = Pal_simulated_start_hour
  /\ C36_HourByUptime = 5

(***************************************************************************)
(* glass.ino: one rain drop per column over a distorted background         *)
(* ("Glass_" prefix).  drops[i] is the row of column i's drop, 255 when    *)
(* the column has none.  pc is the record [call, frame]: the call of       *)
(* loop() that runs next and loop()'s static frame counter.  serial holds, *)
(* for every cell of the latest frame, the ascii_bg index getBgChar read   *)
(* and the colour renderGlassRain chose.                                   *)
(***************************************************************************)
Glass_term_cols == 3
Glass_term_rows == 3

\* frames rendered before the model stops
Glass_MaxFrames == 12

Glass_ColIdx == 0 .. Glass_term_cols - 1
Glass_RowIdx == 0 .. Glass_term_rows - 1

\* values of random(0, 20) the model draws
Glass_RandomDraws == {0, 1, 19}

Glass_rain_colors == << 40, 82, 118, 154 >>

\* hash32: x ^= x >> 13; x *= 0x5bd1e995; x ^= x >> 15
Glass_hash32(x) ==
  LET a == W32Xor(x, W32Shr(x, 13))
      b == W32Mul(a, << 23505, 59797 >>)
  IN  W32Xor(b, W32Shr(b, 15))

\* getBgChar(x, y, t): the offsets taken from the hash and the ascii_bg index
\* [ny][nx] it reads; the hash argument is (uint32_t)(x + y * term_cols) + t * 31
Glass_getBgChar(x, y, t) ==
  LET h  == Glass_hash32(W32Add(<< 0, x + y * Glass_term_cols >>,
                                W32Mul(<< 0, t >>, << 0, 31 >>)))
      dx == ((h[2] \div 8) % 4) - 1
      dy == ((h[2] \div 128) % 4) - 1
  IN  [dx |-> dx, dy |-> dy,
       nx |-> (x + dx + Glass_term_cols) % Glass_term_cols,
       ny |-> (y + dy + Glass_term_rows) % Glass_term_rows]

Glass_rainActiveAt(d, x, y) == d[x] # 255 /\ y = d[x]

\* mutant: the drop is retired one row late
Glass_StepColumn_Late(v, roll) ==
  IF v = 255 THEN (IF roll = 0 THEN 0 ELSE 255)
  ELSE IF U8(v + 1) > Glass_term_rows THEN 255 ELSE U8(v + 1)

\* the body of updateRain's loop for one column; roll is random(0, 20)
Glass_StepColumn(v, roll) ==
  IF v = 255 THEN (IF roll = 0 THEN 0 ELSE 255)
  ELSE IF U8(v + 1) >= Glass_term_rows THEN 255 ELSE U8(v + 1)

Glass_updateRain(d, roll) == [i \in Glass_ColIdx |-> Glass_StepColumn(d[i], roll[i])]

\* renderGlassRain(frame): per cell, the background index and the colour
Glass_renderGlassRain(d, frame) ==
  [cell \in Glass_RowIdx \X Glass_ColIdx |->
     LET y == cell[1]
         x == cell[2]
         base == Glass_getBgChar(x, y, frame \div 3)
     IN  [bg |-> base,
          color |-> IF Glass_rainActiveAt(d, x, y)
                      THEN Glass_rain_colors[((frame \div 2 + x) % 4) + 1]
                      ELSE 240]]

\* setup(): every column empty
InitGlass ==
  /\ drops = [i \in Glass_ColIdx |-> 255]
  /\ pc = [call |-> "updateRain", frame |-> 0]
  /\ serial = term_clear
  /\ fasts = << >>
  /\ column_occupied = << >>
  /\ drop_char_idx = << >>
  /\ drop_bright_packed = << >>
  /\ spawn_roll = 255
  /\ global_rng = << >>
  /\ cols = << >>

Glass_Rest ==
  <<fasts, column_occupied, drop_char_idx, drop_bright_packed, spawn_roll, global_rng, cols>>

Glass_Call_updateRain ==
  /\ pc.call = "updateRain"
  /\ pc.frame < Glass_MaxFrames
  /\ \E roll \in [Glass_ColIdx -> Glass_RandomDraws] :
        drops' = Glass_updateRain(drops, roll)
  /\ pc' = [pc EXCEPT !.call = "renderGlassRain"]
  /\ UNCHANGED serial
  /\ UNCHANGED Glass_Rest

\* renderGlassRain(frame); frame++
Glass_Call_renderGlassRain ==
  /\ pc.call = "renderGlassRain"
  /\ serial' = Glass_renderGlassRain(drops, pc.frame)
  /\ pc' = [call |-> "updateRain", frame |-> pc.frame + 1]
  /\ UNCHANGED drops
  /\ UNCHANGED Glass_Rest

NextGlass == Glass_Call_updateRain \/ Glass_Call_renderGlassRain

SpecGlass == InitGlass /\ [][NextGlass]_vars

\* a frame has been rendered
Glass_Rendered == pc.frame > 0

\* every drops[i] is the sentinel 255 or a row on the screen
C37_RowsOnScreen == \A i \in Glass_ColIdx : drops[i] = 255 \/ drops[i] \in Glass_RowIdx

\* getBgChar read ascii_bg inside the picture for every cell
C37_IndexInPicture ==
  Glass_Rendered =>
    \A cell \in DOMAIN serial :
       /\ 0 <= serial[cell].bg.ny /\ serial[cell].bg.ny < Glass_term_rows
       /\ 0 <= serial[cell].bg.nx /\ serial[cell].bg.nx < Glass_term_cols

\* an updateRain call: a drop moves down one row or, where it would reach
\* term_rows, is retired; an empty column stays empty or starts at row 0
C37_OneRowPerFrame ==
  pc.call = "updateRain" /\ pc'.call = "renderGlassRain" =>
    \A i \in Glass_ColIdx :
       /\ (drops[i] # 255 /\ drops[i] + 1 < Glass_term_rows) => drops'[i] = drops[i] + 1
       /\ (drops[i] # 255 /\ drops[i] + 1 >= Glass_term_rows) => drops'[i] = 255
       /\ drops[i] = 255 => drops'[i] \in {255, 0}

\* C37: after setup and any number of updateRain calls every drops[i] is the
\* sentinel 255 or a row in 0..term_rows-1; an active column's row increases by
\* exactly one per frame and becomes 255 in the frame in which it would reach
\* term_rows; an inactive column can only become 0; getBgChar always indexes
\* ascii_bg with 0 <= ny < term_rows and 0 <= nx < term_cols.
C37_Thm ==
  /\ [](C37_RowsOnScreen /\ C37_IndexInPicture)
  /\ [][C37_OneRowPerFrame]_vars

\* a drop on the last row beside an empty and a fresh column, in a frame whose
\* distortion wrapped around both edges of the picture
C37_Witness ==
  /\ pc.call = "updateRain"
  /\ Glass_Rendered
  /\ \E i, j, k \in Glass_ColIdx :
        drops[i] = Glass_term_rows - 1 /\ drops[j] = 255 /\ drops[k] = 0
  /\ \E cell \in DOMAIN serial : cell[2] + serial[cell].bg.dx < 0
  /\ \E cell \in DOMAIN serial : cell[1] + serial[cell].bg.dy >= Glass_term_rows

(***************************************************************************)
(* The frame of set_bright_slot, on the tables of SpecBright.              *)
(***************************************************************************)
\* values passed as val: the four levels and bytes with higher bits set
C38_Values == {0, 1, 2, 3, 6, 255}

\* the slots of table b read the same as those of table a, except slot s of drop d
C38_OthersKept(a, b, d, s) ==
  \A d2 \in DropIdx, s2 \in SlotIdx :
     (d2 # d \/ s2 # s) =>
        /\ get_bright_slot(b, d2, s2) = get_bright_slot(a, d2, s2)
        /\ P1_get_bright_slot(b, d2, s2) = P1_get_bright_slot(a, d2, s2)

====
